---- MODULE Spec2Model ----
(***************************************************************************)
(* The trade executor of stock_buyer.py (StockBuyer.process_specific_trade *)
(* and everything it calls), with the brokerage callback thread as the     *)
(* environment.                                                            *)
(*                                                                         *)
(* Units: prices are integers in 1/10000 dollar, so the source's epsilon   *)
(* 0.001 is Eps = 10; share counts and risk amounts are whole numbers.     *)
(* Time is counted in seconds and advances only when a wait times out.     *)
(***************************************************************************)
EXTENDS Integers, Sequences, FiniteSets, TLC

(***************************************************************************)
(* Bounds of the model and constants of the program                        *)
(***************************************************************************)
\* callbacks the gateway delivers for one buy order
MaxCallbacks == 2
\* failed locking attempts GlobalLock.acquire makes before its timeout is over
MaxTries == 2

\* 0.001 in 1/10000 units
Eps == 10
\* _wait_for_order_fill(..., timeout=120) for buys
BuyTimeout == 120
\* order_events[order_id].wait(timeout=5)
PollSlice == 5
\* no_progress_time >= 30
StallLimit == 30

(***************************************************************************)
(* Data                                                                    *)
(***************************************************************************)
Stop(price, shares) == [price |-> price, shares |-> shares]

\* a queue entry as json.load returns it; id is a ghost field naming the entry
TradeRec(id, ticker, shares, risk, lower, higher, stops) ==
    [id |-> id, ticker |-> ticker, shares |-> shares, risk_amount |-> risk,
     lower_price_range |-> lower, higher_price_range |-> higher,
     sell_stops |-> stops]

NoTrade == TradeRec(0, "", 0, 0, 0, 0, <<>>)

\* the entry of the end-to-end scenario
TradeAAPL ==
    TradeRec(1, "AAPL", 10, 500, 1450000, 1550000,
             <<Stop(1500000, 5), Stop(1450000, 3), Stop(1400000, 2)>>)

\* a hand-edited entry: lower-case ticker, one stop for the whole position
TradeMSFT ==
    TradeRec(2, "msft", 3, 300, 3000000, 3100000, <<Stop(2900000, 3)>>)

\* the sample of the module docstring: the stops sum to 10, the trade has 1 share
TradePPIH ==
    TradeRec(3, "PPIH", 1, 50, 1450000, 1550000,
             <<Stop(1500000, 5), Stop(1450000, 3), Stop(1400000, 2)>>)

\* more risk than any ledger of the model holds
TradeTSLA ==
    TradeRec(4, "TSLA", 4, 2000, 2000000, 2100000,
             <<Stop(1900000, 1), Stop(1800000, 3)>>)

\* one stop for a whole position of 22 shares
TradeNVDA ==
    TradeRec(5, "NVDA", 22, 300, 1200000, 1250000, <<Stop(1150000, 22)>>)

\* two stops, the first of a single share
TradeGOOG ==
    TradeRec(6, "GOOG", 4, 500, 1700000, 1800000,
             <<Stop(1650000, 1), Stop(1600000, 3)>>)

TradeAMD ==
    TradeRec(7, "AMD", 2, 200, 1000000, 1050000,
             <<Stop(980000, 1), Stop(950000, 1)>>)

InitQueues ==
    { <<TradePPIH, TradeMSFT, TradeTSLA>>,
      <<TradeGOOG, TradeMSFT>> }

InitLedgers == {400, 1000}

Request(ticker, lower, higher) ==
    [ticker |-> ticker, lower |-> lower, higher |-> higher]

\* command lines "execute TICKER LOWER HIGHER"
Requests ==
    { Request("GOOG", 1700000, 1800000),
      Request("goog", 1700005, 1799995),
      Request("GOOG", 1700010, 1800000),
      Request("MSFT", 3000000, 3100000),
      Request("PPIH", 1450000, 1550000),
      Request("TSLA", 2000000, 2100000) }

\* str.upper() on the tickers of the model
Upper(t) ==
    CASE t = "goog" -> "GOOG"
      [] t = "msft" -> "MSFT"
      [] t = "amd" -> "AMD"
      [] OTHER -> t

Abs(x) == IF x < 0 THEN 0 - x ELSE x

RECURSIVE SumShares(_)
SumShares(stops) ==
    IF stops = <<>> THEN 0 ELSE Head(stops).shares + SumShares(Tail(stops))

\* mutant: the shortened list is never written back
RemoveNothing(q, i) == q

\* trades.pop(trade_index), 1-based
RemoveAt(q, i) == SubSeq(q, 1, i - 1) \o SubSeq(q, i + 1, Len(q))

Ids(q) == {q[i].id : i \in 1..Len(q)}

(***************************************************************************)
(* IEEE-754 double arithmetic of  math.floor(stop.shares * scale_factor),  *)
(* scale_factor = filled / planned, for whole numbers 1 <= filled <=       *)
(* planned and stop.shares < 4096.  A double is lead + frac / 2^52 scaled  *)
(* by 2^-e, frac held as four 13-bit limbs, most significant first;        *)
(* division and multiplication round to nearest, ties to even.             *)
(***************************************************************************)
LimbBase == 2^13

RECURSIVE NormShift(_, _)
NormShift(f, p) == IF f >= p THEN 0 ELSE 1 + NormShift(2 * f, p)

RECURSIVE BitLen(_)
BitLen(n) == IF n = 0 THEN 0 ELSE 1 + BitLen(n \div 2)

RECURSIVE DivLimbs(_, _, _)
DivLimbs(r, p, n) ==
    IF n = 0 THEN [q |-> <<>>, r |-> r]
    ELSE LET rest == DivLimbs((r * LimbBase) % p, p, n - 1)
         IN  [q |-> <<(r * LimbBase) \div p>> \o rest.q, r |-> rest.r]

RECURSIVE AddLimbs(_, _)
AddLimbs(limbs, c) ==
    IF limbs = <<>> THEN [c |-> c, q |-> <<>>]
    ELSE LET n == Len(limbs)
             t == limbs[n] + c
             hi == AddLimbs(SubSeq(limbs, 1, n - 1), t \div LimbBase)
         IN  [c |-> hi.c, q |-> Append(hi.q, t % LimbBase)]

RECURSIVE MulLimbs(_, _, _)
MulLimbs(s, limbs, c) ==
    IF limbs = <<>> THEN [c |-> c, q |-> <<>>]
    ELSE LET n == Len(limbs)
             t == s * limbs[n] + c
             hi == MulLimbs(s, SubSeq(limbs, 1, n - 1), t \div LimbBase)
         IN  [c |-> hi.c, q |-> Append(hi.q, t % LimbBase)]

\* the double nearest f / p
FloatDiv(f, p) ==
    LET e == NormShift(f, p)
        d == DivLimbs(f * 2^e - p, p, 4)
        up == 2 * d.r > p \/ (2 * d.r = p /\ d.q[4] % 2 = 1)
        m == IF up THEN AddLimbs(d.q, 1) ELSE [c |-> 0, q |-> d.q]
    IN  [lead |-> 1 + m.c, frac |-> m.q, e |-> e]

\* math.floor of the double nearest s * F
FloatMulFloor(s, F) ==
    LET P == MulLimbs(s, F.frac, 0)
        top == s * F.lead + P.c
        d == BitLen(top) - 1
        low == P.q[4] % 2^d
        kept == P.q[4] \div 2^d
        up == d >= 1 /\ (2 * low > 2^d \/ (2 * low = 2^d /\ kept % 2 = 1))
        carry == IF up /\ kept + 1 = 2^(13 - d)
                 THEN AddLimbs(SubSeq(P.q, 1, 3), 1).c ELSE 0
    IN  (top + carry) \div 2^(F.e)

\* mutant: the scaled count is rounded up
ScaledSharesRoundUp(stop_shares, filled, planned) ==
    (stop_shares * filled + planned - 1) \div planned

\* scaled_shares = math.floor(stop.shares * scale_factor)
ScaledShares(stop_shares, filled, planned) ==
    FloatMulFloor(stop_shares, FloatDiv(filled, planned))

(***************************************************************************)
(* State                                                                   *)
(***************************************************************************)
VARIABLES
    queue,            \* trades.json: the sequence of queue entries
    ledger,           \* risk_amount.json: available_risk
    pc,               \* position of the executor thread in process_specific_trade
    args,             \* (ticker, lower_price, higher_price) of the call
    trade_index,      \* index find_trade_by_criteria returned (1-based, 0 = None)
    trade_data,       \* entry find_trade_by_criteria returned
    connected,        \* ib_client.isConnected()
    order_id_event,   \* IBWrapper.order_id_event is set
    next_order_id,    \* IBWrapper.next_order_id (0 = None)
    order_id,         \* id of the buy order of the call (0 = none placed)
    order_fills,      \* IBWrapper.order_fills[order_id]
    order_event,      \* IBWrapper.order_events[order_id]: "none", "clear" or "set"
    elapsed,          \* time.time() - start_time in _wait_for_order_fill
    last_filled,      \* local of _wait_for_order_fill
    no_progress_time, \* local of _wait_for_order_fill
    fill_result,      \* what _wait_for_order_fill returned
    buy_result,       \* what _execute_buy_order returned
    stop_i,           \* loop index of _execute_sell_stop_orders
    orders,           \* orders the gateway accepted during the call, in order
    cancels,          \* cancelOrder calls of the call
    log,              \* error types _log_error wrote during the call, in order
    retval,           \* value the call is about to return
    result,           \* "none", "running", "true" or "false": outcome of the call
    steps,            \* steps of the call completed so far, in order
    cbCount,          \* callbacks delivered for the buy order
    maxFilled,        \* ghost: largest cumulative fill a callback of the call reported
    silence,          \* ghost: seconds waited in the loop since the last callback
    filledInTime,     \* ghost: the last status callback was Filled, inside the loop
    terminal,         \* ghost: the first Filled or Cancelled callback for the buy order
    consumed,         \* ghost: ids of the entries the executor removed
    buys,             \* ghost: ids of the entries a buy order was placed for, in order
    ledger0,          \* ghost: ledger when the call started
    queue0,           \* ghost: queue when the call started
    lock_holder,      \* stock_buyer_global.lock: "none", "runner" or "other"
    other,            \* main() of a second executor process: where it is
    other_waited,     \* failed locking attempts of its GlobalLock.acquire
    other_touched,    \* ghost: the second process has read the queue file
    trades_buffer,    \* json.dump output for trades.json a process has not flushed
    risk_buffer,      \* json.dump output for risk_amount.json not yet flushed
    tool_pc,          \* the manual tool process: "idle", "close_risk", "close_trades"
    tool_cmd,         \* the command the tool process is running
    tool_out,         \* commands the tool process finished, with their results
    issued,           \* ghost: ledger mutations the processes have called, in order
    risk_exists,      \* os.path.exists('risk_amount.json')
    exit_status       \* exit status of the executor processes: "none", "0" or "1"

files == <<queue, ledger>>
found == <<trade_index, trade_data>>
wrapper == <<order_id_event, next_order_id, order_id, order_fills, order_event>>
heard == <<cbCount, maxFilled, silence, filledInTime, terminal>>
waitv == <<elapsed, last_filled, no_progress_time, heard>>
outv == <<fill_result, buy_result, stop_i>>
gate == <<orders, cancels>>
ghost == <<consumed, buys, ledger0, queue0>>
contender == <<other, other_waited, other_touched>>
shared == <<trades_buffer, risk_buffer>>
toolv == <<tool_pc, tool_cmd, tool_out>>
sharing == <<shared, toolv, issued>>
startup == <<risk_exists, exit_status>>
env == <<lock_holder, contender, sharing, startup>>

vars == <<queue, ledger, pc, args, trade_index, trade_data, connected,
          order_id_event, next_order_id, order_id, order_fills, order_event,
          elapsed, last_filled, no_progress_time, fill_result, buy_result,
          stop_i, orders, cancels, log, retval, result, steps, cbCount,
          maxFilled, silence, filledInTime, terminal, consumed, buys, ledger0,
          queue0,
          lock_holder, other, other_waited, other_touched, trades_buffer,
          risk_buffer, tool_pc, tool_cmd, tool_out, issued, risk_exists,
          exit_status>>

NoFills == [status |-> "None", filled |-> 0, remaining |-> 0]

\* the first terminal callback is not recorded in this behaviour
Untracked ==
    [status |-> "Untracked", filled |-> 0, remaining |-> 0, at |-> "none",
     cancelled |-> FALSE]

\* no Filled or Cancelled callback has been delivered
NoTerminal ==
    [status |-> "None", filled |-> 0, remaining |-> 0, at |-> "none",
     cancelled |-> FALSE]

NoFillResult ==
    [success |-> FALSE, filled_shares |-> 0, remaining_shares |-> 0,
     status |-> "None", cancelled |-> FALSE]

NoBuyResult ==
    [success |-> FALSE, filled_shares |-> 0, full_fill |-> FALSE, made |-> FALSE]

NoRequest == Request("", 0, 0)

\* no process holds unflushed output for trades.json
NoBuffer == [owner |-> "none", data |-> <<>>]

\* no process holds unflushed output for risk_amount.json
NoRiskBuffer == [owner |-> "none", data |-> 0]

\* a command line of risk_modifier.py or trades_modifier.py
Command(cmd, amount, trade) == [cmd |-> cmd, amount |-> amount, trade |-> trade]

NoCommand == Command("none", 0, NoTrade)

\* no executor process has ended
NoExit == [runner |-> "none", other |-> "none"]

\* both files are on disk as last written and no tool process is running
NoSharing ==
    /\ risk_exists = TRUE
    /\ exit_status = NoExit
    /\ trades_buffer = NoBuffer
    /\ risk_buffer = NoRiskBuffer
    /\ tool_pc = "idle"
    /\ tool_cmd = NoCommand
    /\ tool_out = <<>>
    /\ issued = <<>>

Init ==
    /\ queue \in InitQueues
    /\ ledger \in InitLedgers
    /\ pc = "idle"
    /\ args = NoRequest
    /\ trade_index = 0
    /\ trade_data = NoTrade
    /\ connected = FALSE
    /\ order_id_event = FALSE
    /\ next_order_id = 0
    /\ order_id = 0
    /\ order_fills = NoFills
    /\ order_event = "none"
    /\ elapsed = 0
    /\ last_filled = 0
    /\ no_progress_time = 0
    /\ fill_result = NoFillResult
    /\ buy_result = NoBuyResult
    /\ stop_i = 0
    /\ orders = <<>>
    /\ cancels = 0
    /\ log = <<>>
    /\ retval = FALSE
    /\ result = "none"
    /\ steps = <<>>
    /\ cbCount = 0
    /\ maxFilled = 0
    /\ silence = 0
    /\ filledInTime = FALSE
    /\ terminal = Untracked
    /\ consumed = {}
    /\ buys = <<>>
    /\ ledger0 = ledger
    /\ queue0 = queue
    /\ lock_holder = "none"
    /\ other = "off"
    /\ other_waited = 0
    /\ other_touched = FALSE
    /\ NoSharing

(***************************************************************************)
(* Helpers of the executor                                                 *)
(***************************************************************************)
\* mutant: a price exactly 0.001 away still matches
MatchesInclusive(t, req) ==
    /\ Upper(t.ticker) = Upper(req.ticker)
    /\ Abs(t.lower_price_range - req.lower) <= Eps
    /\ Abs(t.higher_price_range - req.higher) <= Eps

\* the match test of find_trade_by_criteria
Matches(t, req) ==
    /\ Upper(t.ticker) = Upper(req.ticker)
    /\ Abs(t.lower_price_range - req.lower) < Eps
    /\ Abs(t.higher_price_range - req.higher) < Eps

\* find_trade_by_criteria: index of the first match, 0 for (None, None)
FindTrade(q, req) ==
    IF \E i \in 1..Len(q) : Matches(q[i], req)
    THEN CHOOSE i \in 1..Len(q) :
            /\ Matches(q[i], req)
            /\ \A j \in 1..(i - 1) : ~Matches(q[j], req)
    ELSE 0

\* first check of _validate_trade
StopsMatch(t) == ~(Abs(SumShares(t.sell_stops) - t.shares) * 10000 > Eps)

\* second check of _validate_trade, against the ledger read under the lock
RiskAvailable(t, available_risk) == ~(t.risk_amount > available_risk)

\* mutant: the risk check is left out
ValidateStopsOnly(t, available_risk) == StopsMatch(t)

ValidateTrade(t, available_risk) ==
    StopsMatch(t) /\ RiskAvailable(t, available_risk)

\* _log_error appends one entry to the error log
Logged(kinds) == log' = log \o kinds

Done(step) == steps' = Append(steps, step)

\* "return value" inside the try block: the finally clause runs next
Return(v) == retval' = v /\ pc' = "finally"

\* mutant: the handler returns False without a log entry
RaiseUnlogged ==
    /\ UNCHANGED log
    /\ Return(FALSE)

\* the handler "except Exception" of process_specific_trade
Raise ==
    /\ Logged(<<"TRADE_PROCESSING_ERROR">>)
    /\ Return(FALSE)

(***************************************************************************)
(* process_specific_trade, one action per step                             *)
(***************************************************************************)
\* available_risk _initialize_files writes when risk_amount.json is missing
FreshLedger == 10000

\* main(): a new process takes the global lock and the command line and
\* builds a StockBuyer, which creates the files that are missing
Call(req) ==
    /\ pc = "idle"
    /\ lock_holder = "none"
    /\ lock_holder' = "runner"
    /\ pc' = "lookup"
    /\ args' = req
    /\ trade_index' = 0
    /\ trade_data' = NoTrade
    /\ connected' = FALSE
    /\ order_id_event' = FALSE
    /\ next_order_id' = 0
    /\ order_id' = 0
    /\ order_fills' = NoFills
    /\ order_event' = "none"
    /\ elapsed' = 0
    /\ last_filled' = 0
    /\ no_progress_time' = 0
    /\ cbCount' = 0
    /\ maxFilled' = 0
    /\ silence' = 0
    /\ filledInTime' = FALSE
    /\ terminal' = terminal
    /\ fill_result' = NoFillResult
    /\ buy_result' = NoBuyResult
    /\ stop_i' = 0
    /\ orders' = <<>>
    /\ cancels' = 0
    /\ log' = <<>>
    /\ retval' = FALSE
    /\ result' = "running"
    /\ steps' = <<>>
    /\ ledger' = (IF risk_exists THEN ledger ELSE FreshLedger)
    /\ risk_exists' = TRUE
    /\ exit_status' = [exit_status EXCEPT !.runner = "none"]
    /\ ledger0' = ledger'
    /\ queue0' = queue
    /\ UNCHANGED <<queue, consumed, buys, contender, sharing>>

Lookup ==
    /\ pc = "lookup"
    /\ LET i == FindTrade(queue, args)
       IN  /\ Done("Lookup")
           /\ IF i = 0
              THEN /\ Logged(<<"TRADE_NOT_FOUND">>)
                   /\ Return(FALSE)
                   /\ UNCHANGED found
              ELSE /\ trade_index' = i
                   /\ trade_data' = queue[i]
                   /\ pc' = "validate"
                   /\ UNCHANGED <<log, retval>>
    /\ UNCHANGED <<files, args, connected, wrapper, waitv, outv, gate, result, ghost,
                   env>>

\* _remove_processed_trade(trade_index) succeeds on the queue q
CanRemove(q, i) == 1 <= i /\ i <= Len(q)

Validate ==
    /\ pc = "validate"
    /\ Done("Validate")
    /\ IF ValidateTrade(trade_data, ledger)
       THEN /\ pc' = "connect"
            /\ UNCHANGED <<queue, log, retval, consumed>>
       ELSE IF CanRemove(queue, trade_index)
       THEN /\ queue' = RemoveAt(queue, trade_index)
            /\ consumed' = consumed \cup {queue[trade_index].id}
            /\ Logged(<<"TRADE_VALIDATION_FAILED">>)
            /\ Return(FALSE)
       ELSE /\ log' = log \o <<"TRADE_VALIDATION_FAILED", "TRADE_PROCESSING_ERROR">>
            /\ Return(FALSE)
            /\ UNCHANGED <<queue, consumed>>
    /\ UNCHANGED <<ledger, args, found, connected, wrapper, waitv, outv, gate,
                   result, buys, ledger0, queue0, env>>

\* mutant: the result of _connect_to_ib is not tested
ConnectIgnoresFailure(how) ==
    /\ pc = "connect"
    /\ Done("Connect")
    /\ connected' = (how # "refused")
    /\ order_id_event' = (how = "ok")
    /\ next_order_id' = 1
    /\ pc' = "dequeue"
    /\ IF how = "ok" THEN UNCHANGED log
       ELSE Logged(<<"CONNECTION_TIMEOUT", "CONNECTION_FAILED">>)
    /\ UNCHANGED <<files, args, found, order_id, order_fills, order_event, waitv,
                   outv, gate, retval, result, ghost, env>>

\* _connect_to_ib: how is "ok", "no_handshake" (the socket opens, nextValidId
\* does not arrive within 10 s) or "refused" (the socket does not open: the
\* client reports it to the wrapper and the handshake does not arrive either)
Connect(how) ==
    /\ pc = "connect"
    /\ Done("Connect")
    /\ connected' = (how # "refused")
    /\ IF how = "ok" \/ order_id_event
       THEN /\ order_id_event' = TRUE
            /\ next_order_id' = IF how = "ok" THEN 1 ELSE next_order_id
            /\ pc' = "dequeue"
            /\ UNCHANGED <<log, retval>>
       ELSE /\ Logged(<<"CONNECTION_TIMEOUT", "CONNECTION_FAILED", "CONNECTION_FAILED">>)
            /\ Return(FALSE)
            /\ UNCHANGED <<order_id_event, next_order_id>>
    /\ UNCHANGED <<files, args, found, order_id, order_fills, order_event, waitv,
                   outv, gate, result, ghost, env>>

\* mutant: the buy is placed without removing the trade first
DequeueSkipped ==
    /\ pc = "dequeue"
    /\ Done("Dequeue")
    /\ pc' = "debit"
    /\ UNCHANGED <<files, args, found, connected, wrapper, waitv, outv, gate, log,
                   retval, result, ghost, env>>

\* _remove_processed_trade(trade_index) after the connect
Dequeue ==
    /\ pc = "dequeue"
    /\ IF CanRemove(queue, trade_index)
       THEN /\ queue' = RemoveAt(queue, trade_index)
            /\ consumed' = consumed \cup {queue[trade_index].id}
            /\ Done("Dequeue")
            /\ pc' = "debit"
            /\ UNCHANGED <<log, retval>>
       ELSE /\ Raise
            /\ UNCHANGED <<queue, consumed, steps>>
    /\ UNCHANGED <<ledger, args, found, connected, wrapper, waitv, outv, gate,
                   result, buys, ledger0, queue0, env>>

\* mutant: the ledger update subtracts the risk amount twice
DebitLedgerTwice ==
    /\ pc = "debit"
    /\ ledger' = ledger - 2 * trade_data.risk_amount
    /\ Done("DebitLedger")
    /\ pc' = "place_buy"
    /\ UNCHANGED <<queue, args, found, connected, wrapper, waitv, outv, gate,
                   log, retval, result, ghost, env>>

\* _update_risk_amount(trade.risk_amount)
DebitLedger ==
    /\ pc = "debit"
    /\ ledger' = ledger - trade_data.risk_amount
    /\ Done("DebitLedger")
    /\ pc' = "place_buy"
    /\ UNCHANGED <<queue, args, found, connected, wrapper, waitv, outv, gate,
                   log, retval, result, ghost, env>>

(***************************************************************************)
(* _execute_buy_order and _wait_for_order_fill                             *)
(***************************************************************************)
Order(id, action, type, qty, aux, entry) ==
    [id |-> id, action |-> action, orderType |-> type, totalQuantity |-> qty,
     auxPrice |-> aux, entry |-> entry]

\* _get_next_order_id and placeOrder of a market BUY for trade.shares
PlaceBuy ==
    /\ pc = "place_buy"
    /\ order_id' = next_order_id
    /\ next_order_id' = next_order_id + 1
    /\ orders' = Append(orders, Order(next_order_id, "BUY", "MKT",
                                      trade_data.shares, 0, trade_data.id))
    /\ buys' = Append(buys, trade_data.id)
    /\ Done("PlaceBuy")
    /\ pc' = "fill_register"
    /\ UNCHANGED <<files, args, found, connected, order_id_event, order_fills,
                   order_event, waitv, outv, cancels, log, retval, result,
                   consumed, ledger0, queue0, env>>

\* order_events[order_id] = threading.Event(); start_time, last_filled, no_progress_time
FillRegister ==
    /\ pc = "fill_register"
    /\ order_event' = "clear"
    /\ elapsed' = 0
    /\ last_filled' = 0
    /\ no_progress_time' = 0
    /\ pc' = "fill_loop"
    /\ UNCHANGED <<files, args, found, connected, order_id_event, next_order_id,
                   order_id, order_fills, heard, outv, gate, log,
                   retval, result, steps, ghost, env>>

\* the loop test and order_events[order_id].wait(timeout=5)
FillWait ==
    /\ pc = "fill_loop"
    /\ IF ~(elapsed < BuyTimeout)
       THEN /\ pc' = "fill_cancel"
            /\ UNCHANGED <<elapsed, no_progress_time, silence>>
       ELSE IF order_event = "set"
       THEN /\ pc' = "fill_read"
            /\ UNCHANGED <<elapsed, no_progress_time, silence>>
       ELSE /\ elapsed' = elapsed + PollSlice
            /\ no_progress_time' = no_progress_time + PollSlice
            /\ silence' = IF silence > StallLimit THEN silence
                          ELSE silence + PollSlice
            /\ pc' = "fill_loop"
    /\ UNCHANGED <<files, args, found, connected, wrapper, last_filled, cbCount,
                   maxFilled, filledInTime, terminal, outv, gate, log, retval, result,
                   steps, ghost, env>>

\* order_fills.get(order_id, {}) with the defaults of the .get calls
FillStatus == IF order_fills.status = "None" THEN "Unknown" ELSE order_fills.status
FillFilled == IF order_fills.status = "None" THEN 0 ELSE order_fills.filled
FillRemaining(default) ==
    IF order_fills.status = "None" THEN default ELSE order_fills.remaining

\* mutant: every outcome reports success, as the Filled branch does
FillOutcomeAlwaysSuccess(success, filled, remaining, status, cancelled) ==
    [success |-> TRUE, filled_shares |-> filled, remaining_shares |-> remaining,
     status |-> status, cancelled |-> cancelled]

\* mutant: only a Filled status counts as success
FillOutcomeTerminalOnly(success, filled, remaining, status, cancelled) ==
    [success |-> status = "Filled", filled_shares |-> filled,
     remaining_shares |-> remaining, status |-> status, cancelled |-> cancelled]

\* the dict _wait_for_order_fill returns
FillOutcome(success, filled, remaining, status, cancelled) ==
    [success |-> success, filled_shares |-> filled, remaining_shares |-> remaining,
     status |-> status, cancelled |-> cancelled]

\* _wait_for_order_fill returns r to _execute_buy_order
FillReturn(r) ==
    /\ fill_result' = r
    /\ Done("AwaitFill")
    /\ pc' = "buy_done"

\* the body of "if wait(...)" up to the event reset
FillRead ==
    /\ pc = "fill_read"
    /\ LET status == FillStatus
           filled_qty == FillFilled
           expected == trade_data.shares
           progress == filled_qty > last_filled
           npt == IF progress THEN 0 ELSE no_progress_time
       IN  /\ last_filled' = IF progress THEN filled_qty ELSE last_filled
           /\ IF status = "Filled"
              THEN /\ FillReturn(FillOutcome(TRUE, filled_qty, 0, status, FALSE))
                   /\ no_progress_time' = npt
              ELSE IF status = "Cancelled"
              THEN /\ FillReturn(FillOutcome(filled_qty > 0, filled_qty,
                                             FillRemaining(expected), status, TRUE))
                   /\ no_progress_time' = npt
              ELSE IF /\ filled_qty > 0
                      /\ filled_qty < expected
                      /\ status \in {"PartiallyFilled", "Submitted"}
              THEN /\ no_progress_time' = npt + PollSlice
                   /\ pc' = IF npt + PollSlice >= StallLimit
                            THEN "fill_cancel" ELSE "fill_loop"
                   /\ UNCHANGED <<fill_result, steps>>
              ELSE /\ no_progress_time' = npt
                   /\ pc' = "fill_clear"
                   /\ UNCHANGED <<fill_result, steps>>
    /\ UNCHANGED <<files, args, found, connected, wrapper, elapsed, heard,
                   buy_result, stop_i, gate, log, retval, result,
                   ghost, env>>

\* order_events[order_id].clear()
FillClear ==
    /\ pc = "fill_clear"
    /\ order_event' = "clear"
    /\ pc' = "fill_loop"
    /\ UNCHANGED <<files, args, found, connected, order_id_event, next_order_id,
                   order_id, order_fills, waitv, outv, gate, log, retval,
                   result, steps, ghost, env>>

\* mutant: the loop ends without a cancel request
FillCancelSkipped ==
    /\ pc = "fill_cancel"
    /\ pc' = "fill_cancel_wait"
    /\ UNCHANGED <<files, args, found, connected, wrapper, waitv, outv, gate,
                   log, retval, result, steps, ghost, env>>

\* ib_client.cancelOrder(order_id, "")
FillCancel ==
    /\ pc = "fill_cancel"
    /\ cancels' = cancels + 1
    /\ pc' = "fill_cancel_wait"
    /\ UNCHANGED <<files, args, found, connected, wrapper, waitv, outv, orders,
                   log, retval, result, steps, ghost, env>>

\* mutant: the wait for the cancel confirmation has no timeout
FillCancelWaitBlocks ==
    /\ pc = "fill_cancel_wait"
    /\ order_event = "set"
    /\ LET filled_qty == FillFilled
           remaining == FillRemaining(trade_data.shares - filled_qty)
       IN  FillReturn(FillOutcome(filled_qty > 0, filled_qty, remaining,
                                  "Cancelled", TRUE))
    /\ UNCHANGED <<files, args, found, connected, wrapper, waitv, buy_result,
                   stop_i, gate, log, retval, result, ghost, env>>

\* order_events[order_id].wait(timeout=10) and the two returns after it
FillCancelWait ==
    /\ pc = "fill_cancel_wait"
    /\ LET filled_qty == FillFilled
           remaining == FillRemaining(trade_data.shares - filled_qty)
       IN  IF order_event = "set"
           THEN FillReturn(FillOutcome(filled_qty > 0, filled_qty, remaining,
                                       "Cancelled", TRUE))
           ELSE FillReturn(FillOutcome(filled_qty > 0, filled_qty, remaining,
                                       "Timeout", FALSE))
    /\ UNCHANGED <<files, args, found, connected, wrapper, waitv, buy_result,
                   stop_i, gate, log, retval, result, ghost, env>>

\* mutant: anything short of a full fill is treated as a failed buy
BuyDoneFullOnly ==
    /\ pc = "buy_done"
    /\ IF fill_result.success /\ fill_result.filled_shares = trade_data.shares
       THEN /\ buy_result' = [success |-> TRUE,
                              filled_shares |-> fill_result.filled_shares,
                              full_fill |-> TRUE, made |-> TRUE]
            /\ pc' = "scale_stops"
            /\ UNCHANGED <<log, retval>>
       ELSE /\ buy_result' = [success |-> FALSE, filled_shares |-> 0,
                              full_fill |-> FALSE, made |-> TRUE]
            /\ Logged(<<"BUY_ORDER_NO_FILL", "BUY_ORDER_COMPLETE_FAILURE">>)
            /\ Return(FALSE)
    /\ UNCHANGED <<files, args, found, connected, wrapper, waitv, fill_result,
                   stop_i, gate, result, steps, ghost, env>>

\* the rest of _execute_buy_order and the test of its result in the caller
BuyDone ==
    /\ pc = "buy_done"
    /\ IF fill_result.success
       THEN /\ buy_result' = [success |-> TRUE,
                              filled_shares |-> fill_result.filled_shares,
                              full_fill |-> fill_result.filled_shares = trade_data.shares,
                              made |-> TRUE]
            /\ pc' = "scale_stops"
            /\ UNCHANGED <<log, retval>>
       ELSE /\ buy_result' = [success |-> FALSE, filled_shares |-> 0,
                              full_fill |-> FALSE, made |-> TRUE]
            /\ Logged(<<"BUY_ORDER_NO_FILL", "BUY_ORDER_COMPLETE_FAILURE">>)
            /\ Return(FALSE)
    /\ UNCHANGED <<files, args, found, connected, wrapper, waitv, fill_result,
                   stop_i, gate, result, steps, ghost, env>>

(***************************************************************************)
(* _execute_sell_stop_orders                                               *)
(***************************************************************************)
\* the early return on 0 shares and scale_factor = actual / planned
ScaleStops ==
    /\ pc = "scale_stops"
    /\ IF buy_result.filled_shares = 0 \/ trade_data.sell_stops = <<>>
       THEN /\ Return(TRUE)
            /\ UNCHANGED <<stop_i, steps>>
       ELSE /\ stop_i' = 1
            /\ Done("ScaleStops")
            /\ pc' = "place_stops"
            /\ UNCHANGED retval
    /\ UNCHANGED <<files, args, found, connected, wrapper, waitv, fill_result,
                   buy_result, gate, log, result, ghost, env>>

\* one iteration of the loop over trade.sell_stops
PlaceStop ==
    /\ pc = "place_stops"
    /\ LET stop == trade_data.sell_stops[stop_i]
           scaled_shares == ScaledShares(stop.shares, buy_result.filled_shares,
                                         trade_data.shares)
       IN  /\ IF scaled_shares = 0
              THEN UNCHANGED <<orders, next_order_id>>
              ELSE /\ orders' = Append(orders, Order(next_order_id, "SELL", "STP",
                                                     scaled_shares, stop.price,
                                                     trade_data.id))
                   /\ next_order_id' = next_order_id + 1
           /\ steps' = IF steps[Len(steps)] = "PlaceStops"
                       THEN steps ELSE Append(steps, "PlaceStops")
    /\ IF stop_i = Len(trade_data.sell_stops)
       THEN /\ Return(TRUE)
            /\ UNCHANGED stop_i
       ELSE /\ stop_i' = stop_i + 1
            /\ UNCHANGED <<pc, retval>>
    /\ UNCHANGED <<files, args, found, connected, order_id_event, order_id,
                   order_fills, order_event, waitv, fill_result, buy_result,
                   cancels, log, result, ghost, env>>

\* mutant: the call returns without the finally clause
FinallyKeepsSession ==
    /\ pc = "finally"
    /\ Done("Disconnect")
    /\ result' = IF retval THEN "true" ELSE "false"
    /\ pc' = "idle"
    /\ lock_holder' = "none"
    /\ exit_status' = [exit_status EXCEPT !.runner = IF retval THEN "0" ELSE "1"]
    /\ UNCHANGED <<files, args, found, connected, wrapper, waitv, outv, gate, log,
                   retval, ghost, contender, sharing, risk_exists>>

\* the finally clause: _disconnect_from_ib; the call returns retval and main()
\* leaves the with block, which releases the global lock
Finally ==
    /\ pc = "finally"
    /\ connected' = FALSE
    /\ Done("Disconnect")
    /\ result' = IF retval THEN "true" ELSE "false"
    /\ pc' = "idle"
    /\ lock_holder' = "none"
    /\ exit_status' = [exit_status EXCEPT !.runner = IF retval THEN "0" ELSE "1"]
    /\ UNCHANGED <<files, args, found, wrapper, waitv, outv, gate, log, retval,
                   ghost, contender, sharing, risk_exists>>

(***************************************************************************)
(* The gateway's callback thread                                           *)
(***************************************************************************)
\* the executor is between placeOrder and the end of the while loop
InLoop == pc \in {"fill_register", "fill_loop", "fill_read", "fill_clear"}

Awaiting ==
    pc \in {"fill_register", "fill_loop", "fill_read", "fill_clear",
            "fill_cancel", "fill_cancel_wait"}

\* where _wait_for_order_fill is when a callback arrives: before its first
\* statement, in the while loop with time left, or after the loop
Phase ==
    IF pc = "fill_register" THEN "register"
    ELSE IF pc \in {"fill_loop", "fill_read", "fill_clear"} /\ elapsed < BuyTimeout
    THEN "loop"
    ELSE "cancel"

\* the record of the first terminal callback, where it is recorded, and
\* whether a callback with status Cancelled has been delivered
FirstTerminal(status, filled) ==
    IF terminal.status = "None" /\ status \in {"Filled", "Cancelled"}
    THEN [status |-> status, filled |-> filled,
          remaining |-> trade_data.shares - filled, at |-> Phase,
          cancelled |-> status = "Cancelled"]
    ELSE IF terminal.status = "Untracked" THEN terminal
    ELSE [terminal EXCEPT !.cancelled = @ \/ status = "Cancelled"]

\* (status, cumulative filled) pairs a gateway reports for an order of n shares
StatusReports(n) ==
    ({"Submitted", "Cancelled"} \X (0..(n - 1)))
        \cup ({"PartiallyFilled"} \X (1..(n - 1)))
        \cup {<<"PreSubmitted", 0>>, <<"Filled", n>>}
        \cup (IF cancels > 0 THEN {"PendingCancel"} \X (0..(n - 1)) ELSE {})

\* IBWrapper.orderStatus for the buy order
OrderStatus(status, filled) ==
    /\ Awaiting
    /\ connected
    /\ cbCount < MaxCallbacks
    /\ cbCount' = cbCount + 1
    /\ maxFilled' = IF filled > maxFilled THEN filled ELSE maxFilled
    /\ silence' = 0
    /\ filledInTime' = (status = "Filled" /\ InLoop /\ elapsed < BuyTimeout)
    /\ terminal' = FirstTerminal(status, filled)
    /\ order_fills' = [status |-> status, filled |-> filled,
                       remaining |-> trade_data.shares - filled]
    /\ order_event' = IF status \in {"Filled", "Cancelled"} /\ order_event # "none"
                      THEN "set" ELSE order_event
    /\ UNCHANGED <<files, pc, args, found, connected, order_id_event, next_order_id,
                   order_id, elapsed, last_filled, no_progress_time, outv, gate,
                   log, retval, result, steps, ghost, env>>

\* IBWrapper.error with reqId = the buy order
OrderError ==
    /\ Awaiting
    /\ connected
    /\ cbCount < MaxCallbacks
    /\ cbCount' = cbCount + 1
    /\ order_event' = IF order_event # "none" THEN "set" ELSE order_event
    /\ silence' = 0
    /\ UNCHANGED <<files, pc, args, found, connected, order_id_event, next_order_id,
                   order_id, order_fills, elapsed, last_filled, no_progress_time,
                   maxFilled, filledInTime, terminal, outv, gate, log, retval, result,
                   steps, ghost, env>>

(***************************************************************************)
(* Specification: executor runs one after another, the gateway alongside   *)
(***************************************************************************)
Next ==
    \/ \E req \in Requests : Call(req)
    \/ Lookup
    \/ Validate
    \/ \E how \in {"ok", "no_handshake", "refused"} : Connect(how)
    \/ Dequeue
    \/ DebitLedger
    \/ PlaceBuy
    \/ FillRegister
    \/ FillWait
    \/ FillRead
    \/ FillClear
    \/ FillCancel
    \/ FillCancelWait
    \/ BuyDone
    \/ ScaleStops
    \/ PlaceStop
    \/ Finally
    \/ \E r \in StatusReports(trade_data.shares) : OrderStatus(r[1], r[2])
    \/ OrderError

Spec == Init /\ [][Next]_vars

(***************************************************************************)
(* Failures of the file locks and of the gateway calls                     *)
(***************************************************************************)
\* FileLocker.__enter__ or json.load raises in the first file access of the step
FileFault ==
    /\ pc \in {"lookup", "validate", "dequeue", "debit"}
    /\ Raise
    /\ UNCHANGED <<files, args, found, connected, wrapper, waitv, outv, gate,
                   result, steps, ghost, env>>

\* placeOrder raises in _execute_buy_order: the order id is taken, no order is placed
PlaceBuyFault ==
    /\ pc = "place_buy"
    /\ order_id' = next_order_id
    /\ next_order_id' = next_order_id + 1
    /\ buy_result' = [success |-> FALSE, filled_shares |-> 0,
                      full_fill |-> FALSE, made |-> TRUE]
    /\ Logged(<<"BUY_ORDER_FAILED", "BUY_ORDER_COMPLETE_FAILURE">>)
    /\ Return(FALSE)
    /\ UNCHANGED <<files, args, found, connected, order_id_event, order_fills,
                   order_event, waitv, fill_result, stop_i, gate, result, steps,
                   ghost, env>>

\* cancelOrder raises: the except clause prints and the fallback return follows
FillCancelFault ==
    /\ pc = "fill_cancel"
    /\ LET filled_qty == FillFilled
       IN  FillReturn(FillOutcome(filled_qty > 0, filled_qty,
                                  FillRemaining(trade_data.shares - filled_qty),
                                  "Timeout", FALSE))
    /\ UNCHANGED <<files, args, found, connected, wrapper, waitv, buy_result,
                   stop_i, gate, log, retval, result, ghost, env>>

\* mutant: a failed stop placement ends the loop
PlaceStopFaultAborts ==
    /\ pc = "place_stops"
    /\ ScaledShares(trade_data.sell_stops[stop_i].shares, buy_result.filled_shares,
                    trade_data.shares) # 0
    /\ next_order_id' = next_order_id + 1
    /\ Logged(<<"SELL_STOP_ORDER_FAILED">>)
    /\ steps' = IF steps[Len(steps)] = "PlaceStops"
                THEN steps ELSE Append(steps, "PlaceStops")
    /\ pc' = "finally"
    /\ retval' = TRUE
    /\ UNCHANGED <<files, args, found, connected, order_id_event, order_id,
                   order_fills, order_event, waitv, outv, gate, result, ghost,
                   env>>

\* placeOrder raises for one stop: it is logged and the loop goes on
PlaceStopFault ==
    /\ pc = "place_stops"
    /\ ScaledShares(trade_data.sell_stops[stop_i].shares, buy_result.filled_shares,
                    trade_data.shares) # 0
    /\ next_order_id' = next_order_id + 1
    /\ Logged(<<"SELL_STOP_ORDER_FAILED">>)
    /\ steps' = IF steps[Len(steps)] = "PlaceStops"
                THEN steps ELSE Append(steps, "PlaceStops")
    /\ IF stop_i = Len(trade_data.sell_stops)
       THEN /\ pc' = "finally"
            /\ retval' = TRUE
            /\ UNCHANGED stop_i
       ELSE /\ stop_i' = stop_i + 1
            /\ UNCHANGED <<pc, retval>>
    /\ UNCHANGED <<files, args, found, connected, order_id_event, order_id,
                   order_fills, order_event, waitv, fill_result, buy_result,
                   gate, result, ghost, env>>

NextFaults ==
    \/ Next
    \/ FileFault
    \/ PlaceBuyFault
    \/ FillCancelFault
    \/ PlaceStopFault

SpecFaults == Init /\ [][NextFaults]_vars

\* mutant: the failure of the stop placement as a whole is logged and the
\* call goes on to its "return True"
StopsFaultSwallowed ==
    /\ pc = "scale_stops"
    /\ buy_result.filled_shares # 0
    /\ Logged(<<"SELL_STOP_ORDERS_FAILED">>)
    /\ Return(TRUE)
    /\ UNCHANGED <<files, args, found, connected, wrapper, waitv, outv, gate,
                   result, steps, ghost, env>>

\* _create_stock_contract raises in _execute_sell_stop_orders, outside the
\* loop: the outer handler logs SELL_STOP_ORDERS_FAILED and re-raises, and the
\* handler of process_specific_trade logs TRADE_PROCESSING_ERROR and returns
\* False
StopsFault ==
    /\ pc = "scale_stops"
    /\ buy_result.filled_shares # 0
    /\ Logged(<<"SELL_STOP_ORDERS_FAILED", "TRADE_PROCESSING_ERROR">>)
    /\ Return(FALSE)
    /\ UNCHANGED <<files, args, found, connected, wrapper, waitv, outv, gate,
                   result, steps, ghost, env>>

NextErrors ==
    \/ NextFaults
    \/ StopsFault

SpecErrors == Init /\ [][NextErrors]_vars

(***************************************************************************)
(* Stop scaling on its own: process_specific_trade at the call of          *)
(* _execute_sell_stop_orders(trade, filled), for every trade of ScaleTrades *)
(* and every filled quantity from 1 share to the planned number            *)
(***************************************************************************)
ScaleTrades == {TradeAAPL, TradeNVDA, TradeGOOG, TradeMSFT}

InitScale ==
    \E t \in ScaleTrades : \E f \in 1..t.shares :
        /\ queue = <<>>
        /\ ledger = 1000 - t.risk_amount
        /\ pc = "scale_stops"
        /\ args = Request(t.ticker, t.lower_price_range, t.higher_price_range)
        /\ trade_index = 1
        /\ trade_data = t
        /\ connected = TRUE
        /\ order_id_event = TRUE
        /\ next_order_id = 2
        /\ order_id = 1
        /\ order_fills = [status |-> IF f = t.shares THEN "Filled" ELSE "Cancelled",
                          filled |-> f, remaining |-> t.shares - f]
        /\ order_event = "set"
        /\ elapsed = 0
        /\ last_filled = f
        /\ no_progress_time = 0
        /\ fill_result = FillOutcome(TRUE, f, t.shares - f,
                                     IF f = t.shares THEN "Filled" ELSE "Cancelled",
                                     f # t.shares)
        /\ buy_result = [success |-> TRUE, filled_shares |-> f,
                         full_fill |-> f = t.shares, made |-> TRUE]
        /\ stop_i = 0
        /\ orders = <<Order(1, "BUY", "MKT", t.shares, 0, t.id)>>
        /\ cancels = 0
        /\ log = <<>>
        /\ retval = FALSE
        /\ result = "running"
        /\ steps = <<"Lookup", "Validate", "Connect", "Dequeue", "DebitLedger",
                     "PlaceBuy", "AwaitFill">>
        /\ cbCount = 1
        /\ maxFilled = f
        /\ silence = 0
        /\ filledInTime = (f = t.shares)
        /\ terminal = Untracked
        /\ consumed = {t.id}
        /\ buys = <<t.id>>
        /\ ledger0 = 1000
        /\ queue0 = <<t>>
        /\ lock_holder = "runner"
        /\ other = "off"
        /\ other_waited = 0
        /\ other_touched = FALSE
        /\ NoSharing

NextScale ==
    \/ ScaleStops
    \/ PlaceStop
    \/ Finally

SpecScale == InitScale /\ [][NextScale]_vars

(***************************************************************************)
(* A second executor process started while the first may be running:       *)
(* GlobalLock and main()                                                   *)
(***************************************************************************)
InitLock ==
    /\ Init
    /\ queue = <<TradeGOOG, TradeMSFT>>
    /\ ledger = 400

\* main() of the second process reaches "with GlobalLock()"
OtherStart ==
    /\ other \in {"off", "gave_up", "exited"}
    /\ other' = "acquire"
    /\ other_waited' = 0
    /\ other_touched' = FALSE
    /\ exit_status' = [exit_status EXCEPT !.other = "none"]
    /\ UNCHANGED <<files, pc, args, found, connected, wrapper, waitv, outv, gate,
                   log, retval, result, steps, ghost, sharing, risk_exists, lock_holder>>

\* mutant: a failed msvcrt.locking is taken for a success
OtherTryAcquireBlind ==
    /\ other = "acquire"
    /\ other_waited < MaxTries
    /\ lock_holder' = "other"
    /\ other' = "run"
    /\ UNCHANGED <<files, pc, args, found, connected, wrapper, waitv, outv, gate,
                   log, retval, result, steps, ghost, sharing, startup, other_waited, other_touched>>

\* one round of the loop of GlobalLock.acquire: open the lock file and try
\* msvcrt.locking(LK_NBLCK)
OtherTryAcquire ==
    /\ other = "acquire"
    /\ other_waited < MaxTries
    /\ IF lock_holder = "none"
       THEN /\ lock_holder' = "other"
            /\ other' = "run"
            /\ UNCHANGED other_waited
       ELSE /\ other_waited' = other_waited + 1
            /\ UNCHANGED <<lock_holder, other>>
    /\ UNCHANGED <<files, pc, args, found, connected, wrapper, waitv, outv, gate,
                   log, retval, result, steps, ghost, sharing, startup, other_touched>>

\* the timeout of acquire is over: __enter__ raises, main() prints that
\* another instance is running and calls sys.exit(1)
OtherGiveUp ==
    /\ other = "acquire"
    /\ other_waited = MaxTries
    /\ other' = "gave_up"
    /\ exit_status' = [exit_status EXCEPT !.other = "1"]
    /\ UNCHANGED <<files, pc, args, found, connected, wrapper, waitv, outv, gate,
                   log, retval, result, steps, ghost, sharing, risk_exists, lock_holder, other_waited,
                   other_touched>>

\* the second process holds the lock and processes its own request, for a
\* trade that is not in the queue: find_trade_by_criteria reads the queue
\* file and the call returns False
OtherProcess ==
    /\ other = "run"
    /\ other' = "processed"
    /\ other_touched' = TRUE
    /\ UNCHANGED <<files, pc, args, found, connected, wrapper, waitv, outv, gate,
                   log, retval, result, steps, ghost, sharing, startup, lock_holder, other_waited>>

\* GlobalLock.__exit__ of the second process on its way to sys.exit(1)
OtherExit ==
    /\ other = "processed"
    /\ other' = "exited"
    /\ lock_holder' = "none"
    /\ exit_status' = [exit_status EXCEPT !.other = "1"]
    /\ UNCHANGED <<files, pc, args, found, connected, wrapper, waitv, outv, gate,
                   log, retval, result, steps, ghost, sharing, risk_exists, other_waited, other_touched>>

NextLock ==
    \/ Next
    \/ OtherStart
    \/ OtherTryAcquire
    \/ OtherGiveUp
    \/ OtherProcess
    \/ OtherExit

SpecLock == InitLock /\ [][NextLock]_vars

(***************************************************************************)
(* main() from the command line to the exit status                         *)
(***************************************************************************)
\* command lines whose lower price is not below the higher price
ReversedRequests ==
    { Request("GOOG", 1800000, 1700000),
      Request("GOOG", 1700000, 1700000) }

\* main() with lower_price >= higher_price: the lock is taken, StockBuyer() is
\* constructed (which creates a missing ledger file), the error is printed
\* and main returns, so that the lock is released and the process ends with
\* status 0 without a call of process_specific_trade
MainRejects(req) ==
    /\ pc = "idle"
    /\ lock_holder = "none"
    /\ req.lower >= req.higher
    /\ args' = req
    /\ result' = "none"
    /\ ledger' = (IF risk_exists THEN ledger ELSE FreshLedger)
    /\ risk_exists' = TRUE
    /\ ledger0' = ledger'
    /\ queue0' = queue
    /\ exit_status' = [exit_status EXCEPT !.runner = "0"]
    /\ UNCHANGED <<queue, pc, found, connected, wrapper, waitv, outv, gate, log,
                   retval, steps, consumed, buys, lock_holder, contender, sharing>>

NextMain ==
    \/ NextLock
    \/ FileFault
    \/ \E req \in ReversedRequests : MainRejects(req)

SpecMain == InitLock /\ [][NextMain]_vars

(***************************************************************************)
(* One StockBuyer object used for several calls of process_specific_trade  *)
(***************************************************************************)
\* a further call on the object of the call before: the IBWrapper of the
\* object, with its order_id_event and next_order_id, is the one of the
\* earlier session (nothing clears the event), the files are not initialised
\* again, and the locals of the call are new
CallAgain(req) ==
    /\ pc = "idle"
    /\ result \in {"true", "false"}
    /\ lock_holder = "none"
    /\ lock_holder' = "runner"
    /\ pc' = "lookup"
    /\ args' = req
    /\ trade_index' = 0
    /\ trade_data' = NoTrade
    /\ connected' = FALSE
    /\ order_id' = 0
    /\ order_fills' = NoFills
    /\ order_event' = "none"
    /\ elapsed' = 0
    /\ last_filled' = 0
    /\ no_progress_time' = 0
    /\ cbCount' = 0
    /\ maxFilled' = 0
    /\ silence' = 0
    /\ filledInTime' = FALSE
    /\ terminal' = terminal
    /\ fill_result' = NoFillResult
    /\ buy_result' = NoBuyResult
    /\ stop_i' = 0
    /\ orders' = <<>>
    /\ cancels' = 0
    /\ log' = <<>>
    /\ retval' = FALSE
    /\ result' = "running"
    /\ steps' = <<>>
    /\ exit_status' = [exit_status EXCEPT !.runner = "none"]
    /\ ledger0' = ledger
    /\ queue0' = queue
    /\ UNCHANGED <<files, order_id_event, next_order_id, consumed, buys,
                   contender, sharing, risk_exists>>

\* two queued trades the ledger has the risk capital for
InitReuse ==
    /\ Init
    /\ queue = <<TradeGOOG, TradeMSFT>>
    /\ ledger = 1000

\* the socket opens in every attempt; the handshake arrives in time or not
NextReuse ==
    \/ \E req \in Requests : Call(req)
    \/ \E req \in Requests : CallAgain(req)
    \/ Lookup
    \/ Validate
    \/ \E how \in {"ok", "no_handshake"} : Connect(how)
    \/ Dequeue
    \/ DebitLedger
    \/ PlaceBuy
    \/ FillRegister
    \/ FillWait
    \/ FillRead
    \/ FillClear
    \/ FillCancel
    \/ FillCancelWait
    \/ BuyDone
    \/ ScaleStops
    \/ PlaceStop
    \/ Finally
    \/ \E r \in StatusReports(trade_data.shares) : OrderStatus(r[1], r[2])
    \/ OrderError

SpecReuse == InitReuse /\ [][NextReuse]_vars

(***************************************************************************)
(* One call from the return of placeOrder for the buy order to its end,     *)
(* with the first terminal callback of the order recorded                  *)
(***************************************************************************)
InitAwait ==
    /\ queue = <<TradeMSFT>>
    /\ ledger = 1000 - TradeGOOG.risk_amount
    /\ pc = "fill_register"
    /\ args = Request("GOOG", TradeGOOG.lower_price_range, TradeGOOG.higher_price_range)
    /\ trade_index = 1
    /\ trade_data = TradeGOOG
    /\ connected = TRUE
    /\ order_id_event = TRUE
    /\ next_order_id = 2
    /\ order_id = 1
    /\ order_fills = NoFills
    /\ order_event = "none"
    /\ elapsed = 0
    /\ last_filled = 0
    /\ no_progress_time = 0
    /\ fill_result = NoFillResult
    /\ buy_result = NoBuyResult
    /\ stop_i = 0
    /\ orders = <<Order(1, "BUY", "MKT", TradeGOOG.shares, 0, TradeGOOG.id)>>
    /\ cancels = 0
    /\ log = <<>>
    /\ retval = FALSE
    /\ result = "running"
    /\ steps = <<"Lookup", "Validate", "Connect", "Dequeue", "DebitLedger", "PlaceBuy">>
    /\ cbCount = 0
    /\ maxFilled = 0
    /\ silence = 0
    /\ filledInTime = FALSE
    /\ terminal = NoTerminal
    /\ consumed = {TradeGOOG.id}
    /\ buys = <<TradeGOOG.id>>
    /\ ledger0 = 1000
    /\ queue0 = <<TradeGOOG, TradeMSFT>>
    /\ lock_holder = "runner"
    /\ other = "off"
    /\ other_waited = 0
    /\ other_touched = FALSE
    /\ NoSharing

NextAwait ==
    \/ FillRegister
    \/ FillWait
    \/ FillRead
    \/ FillClear
    \/ FillCancel
    \/ FillCancelWait
    \/ BuyDone
    \/ ScaleStops
    \/ PlaceStop
    \/ Finally
    \/ \E r \in StatusReports(trade_data.shares) : OrderStatus(r[1], r[2])
    \/ OrderError

SpecAwait == InitAwait /\ [][NextAwait]_vars

(***************************************************************************)
(* The fill monitor on its own, for liveness: _wait_for_order_fill from its *)
(* first statement, with a callback stream that never has to end and a     *)
(* clock that goes on while the loop runs                                  *)
(***************************************************************************)
InitLive ==
    /\ queue = <<>>
    /\ ledger = 1000 - TradeAMD.risk_amount
    /\ pc = "fill_register"
    /\ args = Request("AMD", TradeAMD.lower_price_range, TradeAMD.higher_price_range)
    /\ trade_index = 1
    /\ trade_data = TradeAMD
    /\ connected = TRUE
    /\ order_id_event = TRUE
    /\ next_order_id = 2
    /\ order_id = 1
    /\ order_fills = NoFills
    /\ order_event = "none"
    /\ elapsed = 0
    /\ last_filled = 0
    /\ no_progress_time = 0
    /\ fill_result = NoFillResult
    /\ buy_result = NoBuyResult
    /\ stop_i = 0
    /\ orders = <<Order(1, "BUY", "MKT", TradeAMD.shares, 0, TradeAMD.id)>>
    /\ cancels = 0
    /\ log = <<>>
    /\ retval = FALSE
    /\ result = "running"
    /\ steps = <<"Lookup", "Validate", "Connect", "Dequeue", "DebitLedger", "PlaceBuy">>
    /\ cbCount = 0
    /\ maxFilled = 0
    /\ silence = 0
    /\ filledInTime = FALSE
    /\ terminal = Untracked
    /\ consumed = {TradeAMD.id}
    /\ buys = <<TradeAMD.id>>
    /\ ledger0 = 1000
    /\ queue0 = <<TradeAMD>>
    /\ lock_holder = "runner"
    /\ other = "off"
    /\ other_waited = 0
    /\ other_touched = FALSE
    /\ NoSharing

\* time.time() goes on while the thread is in the loop, whatever it is doing
Tick ==
    /\ InLoop
    /\ elapsed < BuyTimeout
    /\ elapsed' = elapsed + PollSlice
    /\ silence' = IF silence > StallLimit THEN silence ELSE silence + PollSlice
    /\ UNCHANGED <<files, pc, args, found, connected, wrapper, last_filled,
                   no_progress_time, cbCount, maxFilled, filledInTime, terminal, outv, gate,
                   log, retval, result, steps, ghost, env>>

\* IBWrapper.orderStatus, any number of times (cbCount stops counting at MaxCallbacks)
OrderStatusAgain(status, filled) ==
    /\ Awaiting
    /\ connected
    /\ cbCount' = IF cbCount < MaxCallbacks THEN cbCount + 1 ELSE cbCount
    /\ maxFilled' = IF filled > maxFilled THEN filled ELSE maxFilled
    /\ silence' = 0
    /\ filledInTime' = (status = "Filled" /\ InLoop /\ elapsed < BuyTimeout)
    /\ terminal' = FirstTerminal(status, filled)
    /\ order_fills' = [status |-> status, filled |-> filled,
                       remaining |-> trade_data.shares - filled]
    /\ order_event' = IF status \in {"Filled", "Cancelled"} /\ order_event # "none"
                      THEN "set" ELSE order_event
    /\ UNCHANGED <<files, pc, args, found, connected, order_id_event, next_order_id,
                   order_id, elapsed, last_filled, no_progress_time, outv, gate,
                   log, retval, result, steps, ghost, env>>

\* IBWrapper.error, any number of times
OrderErrorAgain ==
    /\ Awaiting
    /\ connected
    /\ cbCount' = IF cbCount < MaxCallbacks THEN cbCount + 1 ELSE cbCount
    /\ order_event' = IF order_event # "none" THEN "set" ELSE order_event
    /\ silence' = 0
    /\ UNCHANGED <<files, pc, args, found, connected, order_id_event, next_order_id,
                   order_id, order_fills, elapsed, last_filled, no_progress_time,
                   maxFilled, filledInTime, terminal, outv, gate, log, retval, result,
                   steps, ghost, env>>

\* one report for each branch of the loop body: not yet filled, partly filled
\* (with and without progress), cancelled after a partial fill, filled
LiveReports(n) ==
    {<<"Submitted", 0>>, <<"PartiallyFilled", 1>>, <<"PartiallyFilled", n - 1>>,
     <<"Cancelled", 1>>, <<"Filled", n>>}

\* the steps of the thread that runs _wait_for_order_fill
WaitStep ==
    \/ FillRegister
    \/ FillWait
    \/ FillRead
    \/ FillClear
    \/ FillCancel
    \/ FillCancelWait

NextLive ==
    \/ WaitStep
    \/ Tick
    \/ \E r \in LiveReports(trade_data.shares) : OrderStatusAgain(r[1], r[2])
    \/ OrderErrorAgain

\* the thread is scheduled and the clock advances; nothing is asked of the gateway
SpecLive ==
    InitLive /\ [][NextLive]_vars /\ WF_vars(WaitStep) /\ WF_vars(Tick)

(***************************************************************************)
(* The two files shared with the manual tools: FileLocker,                 *)
(* risk_modifier.py and trades_modifier.py.  A process that rewrites a     *)
(* file does f.seek(0); f.truncate(); json.dump(...): the file is empty on *)
(* disk and the new text is in the buffer of the file object, the file     *)
(* position is 0.  FileLocker.__exit__ then unlocks byte 0 and after that  *)
(* close() writes the buffer.  A rewrite is therefore two steps: the       *)
(* locked scope, and the close that puts the text on disk.  (Text of more  *)
(* than one buffer, 8192 bytes, would move the position, the unlock would  *)
(* fail and close() would release the lock; the files of the model are     *)
(* smaller.)  A scope that only reads ends at the end of the file and is   *)
(* one step.                                                               *)
(***************************************************************************)
MaxCommands == 3

\* command lines of risk_modifier.py
RiskCommands ==
    { Command("set", 200, NoTrade),
      Command("add", 100, NoTrade),
      Command("subtract", 800, NoTrade) }

\* an entry for the ticker and the price range of TradeGOOG
TradeGOOGAgain == [TradeGOOG EXCEPT !.id = 8]

\* normalized trades given to trades_modifier.py add
NewTrades == {TradeAMD, TradeGOOGAgain}

\* the file is truncated on disk, its text is in the buffer of a process
Truncated(buffer) == buffer.owner # "none"

\* subtract_risk_amount returns False and writes nothing
Refused(c, old_amount) == c.cmd = "subtract" /\ old_amount - c.amount < 0

\* new_amount of set_risk_amount, add_risk_amount, subtract_risk_amount and
\* new_risk of _update_risk_amount ("debit")
NewAmount(c, old_amount) ==
    CASE c.cmd = "set" -> c.amount
      [] c.cmd = "add" -> old_amount + c.amount
      [] c.cmd = "subtract" -> old_amount - c.amount
      [] c.cmd = "debit" -> old_amount - c.amount

\* mutant: the duplicate test compares the ticker with the one typed
DuplicateAsTyped(trades, t) ==
    \E i \in 1..Len(trades) :
        /\ trades[i].ticker = "amd"
        /\ Abs(trades[i].lower_price_range - t.lower_price_range) < Eps
        /\ Abs(trades[i].higher_price_range - t.higher_price_range) < Eps

\* the duplicate test of add_trade: the tickers are compared as stored
Duplicate(trades, t) ==
    \E i \in 1..Len(trades) :
        /\ trades[i].ticker = t.ticker
        /\ Abs(trades[i].lower_price_range - t.lower_price_range) < Eps
        /\ Abs(trades[i].higher_price_range - t.higher_price_range) < Eps

executor ==
    <<pc, args, found, connected, wrapper, waitv, outv, gate, log, retval,
      result, steps>>

\* the state after main() took the global lock and process_specific_trade
\* was called
InitShared ==
    /\ queue = <<TradeGOOG, TradeMSFT>>
    /\ ledger = 1000
    /\ pc = "lookup"
    /\ args \in { Request("GOOG", 1700000, 1800000),
                  Request("MSFT", 3000000, 3100000),
                  Request("AMD", 1000000, 1050000) }
    /\ trade_index = 0
    /\ trade_data = NoTrade
    /\ connected = FALSE
    /\ order_id_event = FALSE
    /\ next_order_id = 0
    /\ order_id = 0
    /\ order_fills = NoFills
    /\ order_event = "none"
    /\ elapsed = 0
    /\ last_filled = 0
    /\ no_progress_time = 0
    /\ fill_result = NoFillResult
    /\ buy_result = NoBuyResult
    /\ stop_i = 0
    /\ orders = <<>>
    /\ cancels = 0
    /\ log = <<>>
    /\ retval = FALSE
    /\ result = "running"
    /\ steps = <<>>
    /\ cbCount = 0
    /\ maxFilled = 0
    /\ silence = 0
    /\ filledInTime = FALSE
    /\ terminal = Untracked
    /\ consumed = {}
    /\ buys = <<>>
    /\ ledger0 = ledger
    /\ queue0 = queue
    /\ lock_holder = "runner"
    /\ other = "off"
    /\ other_waited = 0
    /\ other_touched = FALSE
    /\ NoSharing

\* find_trade_by_criteria on the shared file: json.load raises on a
\* truncated file
LookupShared ==
    /\ pc = "lookup"
    /\ IF Truncated(trades_buffer)
       THEN /\ Raise
            /\ UNCHANGED <<found, steps>>
       ELSE LET i == FindTrade(queue, args)
            IN  /\ Done("Lookup")
                /\ IF i = 0
                   THEN /\ Logged(<<"TRADE_NOT_FOUND">>)
                        /\ Return(FALSE)
                        /\ UNCHANGED found
                   ELSE /\ trade_index' = i
                        /\ trade_data' = queue[i]
                        /\ pc' = "validate"
                        /\ UNCHANGED <<log, retval>>
    /\ UNCHANGED <<files, args, connected, wrapper, waitv, outv, gate, result,
                   ghost, env>>

\* _validate_trade reads the ledger file when the stops match; a failed
\* validation is logged and _remove_processed_trade rewrites the queue file
ValidateShared ==
    /\ pc = "validate"
    /\ IF StopsMatch(trade_data) /\ Truncated(risk_buffer)
       THEN /\ Raise
            /\ UNCHANGED <<steps, trades_buffer>>
       ELSE /\ Done("Validate")
            /\ IF ValidateTrade(trade_data, ledger)
               THEN /\ pc' = "connect"
                    /\ UNCHANGED <<log, retval, trades_buffer>>
               ELSE IF ~Truncated(trades_buffer) /\ CanRemove(queue, trade_index)
               THEN /\ Logged(<<"TRADE_VALIDATION_FAILED">>)
                    /\ trades_buffer' =
                          [owner |-> "runner", data |-> RemoveAt(queue, trade_index)]
                    /\ pc' = "evict_close"
                    /\ UNCHANGED retval
               ELSE /\ log' = log \o <<"TRADE_VALIDATION_FAILED",
                                       "TRADE_PROCESSING_ERROR">>
                    /\ Return(FALSE)
                    /\ UNCHANGED trades_buffer
    /\ UNCHANGED <<files, args, found, connected, wrapper, waitv, outv, gate,
                   result, ghost, lock_holder, contender, startup, risk_buffer, toolv,
                   issued>>

\* _remove_processed_trade(trade_index) after the connect, on the shared file
DequeueShared ==
    /\ pc = "dequeue"
    /\ IF ~Truncated(trades_buffer) /\ CanRemove(queue, trade_index)
       THEN /\ trades_buffer' =
                  [owner |-> "runner", data |-> RemoveAt(queue, trade_index)]
            /\ pc' = "dequeue_close"
            /\ UNCHANGED <<log, retval>>
       ELSE /\ Raise
            /\ UNCHANGED trades_buffer
    /\ UNCHANGED <<files, args, found, connected, wrapper, waitv, outv, gate,
                   result, steps, ghost, lock_holder, contender, startup, risk_buffer,
                   toolv, issued>>

\* close() at the end of FileLocker.__exit__ in _remove_processed_trade
RemoveClose ==
    /\ pc \in {"evict_close", "dequeue_close"}
    /\ queue' = trades_buffer.data
    /\ consumed' = consumed \cup (Ids(queue) \ Ids(trades_buffer.data))
    /\ trades_buffer' = NoBuffer
    /\ IF pc = "evict_close"
       THEN /\ Return(FALSE)
            /\ UNCHANGED steps
       ELSE /\ Done("Dequeue")
            /\ pc' = "debit"
            /\ UNCHANGED retval
    /\ UNCHANGED <<ledger, args, found, connected, wrapper, waitv, outv, gate,
                   log, result, buys, ledger0, queue0, lock_holder, contender, startup,
                   risk_buffer, toolv, issued>>

\* _update_risk_amount(trade.risk_amount) on the shared file
DebitShared ==
    /\ pc = "debit"
    /\ issued' = Append(issued, Command("debit", trade_data.risk_amount, NoTrade))
    /\ IF Truncated(risk_buffer)
       THEN /\ Raise
            /\ UNCHANGED risk_buffer
       ELSE /\ risk_buffer' =
                  [owner |-> "runner", data |-> ledger - trade_data.risk_amount]
            /\ pc' = "debit_close"
            /\ UNCHANGED <<log, retval>>
    /\ UNCHANGED <<files, args, found, connected, wrapper, waitv, outv, gate,
                   result, steps, ghost, lock_holder, contender, startup, trades_buffer,
                   toolv>>

\* close() at the end of FileLocker.__exit__ in _update_risk_amount
DebitClose ==
    /\ pc = "debit_close"
    /\ ledger' = risk_buffer.data
    /\ risk_buffer' = NoRiskBuffer
    /\ Done("DebitLedger")
    /\ pc' = "place_buy"
    /\ UNCHANGED <<queue, args, found, connected, wrapper, waitv, outv, gate,
                   log, retval, result, ghost, lock_holder, contender, startup,
                   trades_buffer, toolv, issued>>

\* what a finished command of the tool returned: ok is the boolean of the
\* modifier method, value the amount get_current_risk returned
Outcome(c, ok, value) == [command |-> c, ok |-> ok, value |-> value]

\* the ledger after RiskModifier.__init__, which writes available_risk 0.0
\* when risk_amount.json is missing
InitializedLedger == IF risk_exists THEN ledger ELSE 0

\* risk_modifier.py get: get_current_risk returns 0.0 when json.load raises
ToolGet ==
    /\ tool_pc = "idle"
    /\ Len(tool_out) < MaxCommands
    /\ risk_exists' = TRUE
    /\ ledger' = InitializedLedger
    /\ tool_out' = Append(tool_out,
                          Outcome(Command("get", 0, NoTrade), TRUE,
                                  IF Truncated(risk_buffer) THEN 0
                                  ELSE InitializedLedger))
    /\ UNCHANGED <<queue, executor, ghost, lock_holder, contender, exit_status,
                   shared, tool_pc, tool_cmd, issued>>

\* mutant: subtract_risk_amount stores the difference whatever its sign
ToolRiskNoFloor(c) ==
    /\ tool_pc = "idle"
    /\ Len(tool_out) < MaxCommands
    /\ issued' = Append(issued, c)
    /\ risk_exists' = TRUE
    /\ ledger' = InitializedLedger
    /\ IF Truncated(risk_buffer)
       THEN /\ tool_out' = Append(tool_out, Outcome(c, FALSE, 0))
            /\ UNCHANGED <<tool_pc, tool_cmd, risk_buffer>>
       ELSE /\ risk_buffer' =
                  [owner |-> "tool", data |-> NewAmount(c, InitializedLedger)]
            /\ tool_pc' = "close_risk"
            /\ tool_cmd' = c
            /\ UNCHANGED tool_out
    /\ UNCHANGED <<queue, executor, ghost, lock_holder, contender, exit_status,
                   trades_buffer>>

\* risk_modifier.py set | add | subtract: the locked scope of the command
ToolRisk(c) ==
    /\ tool_pc = "idle"
    /\ Len(tool_out) < MaxCommands
    /\ issued' = Append(issued, c)
    /\ risk_exists' = TRUE
    /\ ledger' = InitializedLedger
    /\ IF Truncated(risk_buffer) \/ Refused(c, InitializedLedger)
       THEN /\ tool_out' = Append(tool_out, Outcome(c, FALSE, 0))
            /\ UNCHANGED <<tool_pc, tool_cmd, risk_buffer>>
       ELSE /\ risk_buffer' =
                  [owner |-> "tool", data |-> NewAmount(c, InitializedLedger)]
            /\ tool_pc' = "close_risk"
            /\ tool_cmd' = c
            /\ UNCHANGED tool_out
    /\ UNCHANGED <<queue, executor, ghost, lock_holder, contender, exit_status,
                   trades_buffer>>

\* mutant: the stops are not summed
ValidateNewTradeNoSum(t) ==
    /\ Upper(t.ticker) # ""
    /\ t.shares > 0
    /\ t.risk_amount > 0
    /\ ~(t.lower_price_range >= t.higher_price_range)
    /\ Len(t.sell_stops) # 0
    /\ \A i \in 1..Len(t.sell_stops) :
          t.sell_stops[i].price > 0 /\ t.sell_stops[i].shares > 0

\* TradesModifier._validate_trade on the fields of the model
ValidateNewTrade(t) ==
    /\ Upper(t.ticker) # ""
    /\ t.shares > 0
    /\ t.risk_amount > 0
    /\ ~(t.lower_price_range >= t.higher_price_range)
    /\ Len(t.sell_stops) # 0
    /\ \A i \in 1..Len(t.sell_stops) :
          t.sell_stops[i].price > 0 /\ t.sell_stops[i].shares > 0
    /\ ~(Abs(SumShares(t.sell_stops) - t.shares) * 10000 > Eps)

\* TradesModifier._normalize_trade: the ticker in upper case, the numbers as
\* floats
NormalizeTrade(t) == [t EXCEPT !.ticker = Upper(@)]

\* trades_modifier.py add: add_trade up to the end of its locked scope
ToolAdd(t) ==
    /\ tool_pc = "idle"
    /\ Len(tool_out) < MaxCommands
    /\ LET normalized_trade == NormalizeTrade(t)
       IN  IF \/ ~ValidateNewTrade(t)
              \/ Truncated(trades_buffer)
              \/ Duplicate(queue, normalized_trade)
           THEN /\ tool_out' = Append(tool_out,
                                      Outcome(Command("add_trade", 0, t), FALSE, 0))
                /\ UNCHANGED <<tool_pc, tool_cmd, trades_buffer>>
           ELSE /\ trades_buffer' =
                      [owner |-> "tool", data |-> Append(queue, normalized_trade)]
                /\ tool_pc' = "close_trades"
                /\ tool_cmd' = Command("add_trade", 0, t)
                /\ UNCHANGED tool_out
    /\ UNCHANGED <<files, executor, ghost, lock_holder, contender, startup,
                   risk_buffer, issued>>

\* trades_modifier.py remove TICKER LOW HIGH: the locked scope of remove_trade;
\* the command names the ticker and the price range in its trade field
ToolRemove(req) ==
    /\ tool_pc = "idle"
    /\ Len(tool_out) < MaxCommands
    /\ LET c == Command("remove_trade", 0,
                        TradeRec(0, req.ticker, 0, 0, req.lower, req.higher, <<>>))
           i == FindTrade(queue, req)
       IN  IF Truncated(trades_buffer) \/ i = 0
           THEN /\ tool_out' = Append(tool_out, Outcome(c, FALSE, 0))
                /\ UNCHANGED <<tool_pc, tool_cmd, trades_buffer>>
           ELSE /\ trades_buffer' = [owner |-> "tool", data |-> RemoveAt(queue, i)]
                /\ tool_pc' = "close_trades"
                /\ tool_cmd' = c
                /\ UNCHANGED tool_out
    /\ UNCHANGED <<files, executor, ghost, lock_holder, contender, startup,
                   risk_buffer, issued>>

\* trades_modifier.py clear: the locked scope of clear_all_trades
ToolClear ==
    /\ tool_pc = "idle"
    /\ Len(tool_out) < MaxCommands
    /\ LET c == Command("clear_all_trades", 0, NoTrade)
       IN  IF Truncated(trades_buffer) \/ queue = <<>>
           THEN /\ tool_out' = Append(tool_out,
                                      Outcome(c, ~Truncated(trades_buffer), 0))
                /\ UNCHANGED <<tool_pc, tool_cmd, trades_buffer>>
           ELSE /\ trades_buffer' = [owner |-> "tool", data |-> <<>>]
                /\ tool_pc' = "close_trades"
                /\ tool_cmd' = c
                /\ UNCHANGED tool_out
    /\ UNCHANGED <<files, executor, ghost, lock_holder, contender, startup,
                   risk_buffer, issued>>

\* close() at the end of FileLocker.__exit__ in the tool; the command
\* returns True
ToolClose ==
    /\ tool_pc # "idle"
    /\ IF tool_pc = "close_trades"
       THEN /\ queue' = trades_buffer.data
            /\ trades_buffer' = NoBuffer
            /\ UNCHANGED <<ledger, risk_buffer>>
       ELSE /\ ledger' = risk_buffer.data
            /\ risk_buffer' = NoRiskBuffer
            /\ UNCHANGED <<queue, trades_buffer>>
    /\ tool_out' = Append(tool_out, Outcome(tool_cmd, TRUE, 0))
    /\ tool_pc' = "idle"
    /\ tool_cmd' = NoCommand
    /\ UNCHANGED <<executor, ghost, lock_holder, contender, startup, issued>>

NextShared ==
    \/ LookupShared
    \/ ValidateShared
    \/ \E how \in {"ok", "no_handshake", "refused"} : Connect(how)
    \/ DequeueShared
    \/ RemoveClose
    \/ DebitShared
    \/ DebitClose
    \/ Finally
    \/ ToolGet
    \/ \E c \in RiskCommands : ToolRisk(c)
    \/ \E t \in NewTrades : ToolAdd(t)
    \/ ToolClose

SpecShared == InitShared /\ [][NextShared]_vars

(***************************************************************************)
(* The manual tools on their own: one session of commands of               *)
(* risk_modifier.py and trades_modifier.py, no executor running            *)
(***************************************************************************)
\* "amd" typed in lower case, for the price range of TradeAMD
TradeAMDLower == [TradeAMD EXCEPT !.id = 9, !.ticker = "amd"]

\* a price range less than 0.001 away from the one of TradeAMD
TradeAMDNear ==
    [TradeAMD EXCEPT !.id = 10, !.lower_price_range = @ + 5,
                     !.higher_price_range = @ - 5]

\* trades given to trades_modifier.py add
ToolTrades == {TradeAMD, TradeAMDLower, TradeAMDNear, TradeGOOGAgain, TradePPIH}

\* TICKER LOW HIGH given to trades_modifier.py remove
ToolRequests ==
    { Request("AMD", 1000000, 1050000),
      Request("GOOG", 1700000, 1800000) }

\* no process is running; risk_amount.json may be missing
InitTools ==
    /\ queue = <<>>
    /\ risk_exists \in BOOLEAN
    /\ ledger \in (IF risk_exists THEN {0, 400, 800, 1000} ELSE {0})
    /\ pc = "idle"
    /\ args = NoRequest
    /\ trade_index = 0
    /\ trade_data = NoTrade
    /\ connected = FALSE
    /\ order_id_event = FALSE
    /\ next_order_id = 0
    /\ order_id = 0
    /\ order_fills = NoFills
    /\ order_event = "none"
    /\ elapsed = 0
    /\ last_filled = 0
    /\ no_progress_time = 0
    /\ fill_result = NoFillResult
    /\ buy_result = NoBuyResult
    /\ stop_i = 0
    /\ orders = <<>>
    /\ cancels = 0
    /\ log = <<>>
    /\ retval = FALSE
    /\ result = "none"
    /\ steps = <<>>
    /\ cbCount = 0
    /\ maxFilled = 0
    /\ silence = 0
    /\ filledInTime = FALSE
    /\ terminal = Untracked
    /\ consumed = {}
    /\ buys = <<>>
    /\ ledger0 = ledger
    /\ queue0 = queue
    /\ lock_holder = "none"
    /\ other = "off"
    /\ other_waited = 0
    /\ other_touched = FALSE
    /\ trades_buffer = NoBuffer
    /\ risk_buffer = NoRiskBuffer
    /\ tool_pc = "idle"
    /\ tool_cmd = NoCommand
    /\ tool_out = <<>>
    /\ issued = <<>>
    /\ exit_status = NoExit

NextTools ==
    \/ ToolGet
    \/ \E c \in RiskCommands : ToolRisk(c)
    \/ \E t \in ToolTrades : ToolAdd(t)
    \/ \E req \in ToolRequests : ToolRemove(req)
    \/ ToolClear
    \/ ToolClose

SpecTools == InitTools /\ [][NextTools]_vars

(***************************************************************************)
(* One call of the executor next to a session of trades_modifier.py with   *)
(* add, remove and clear                                                   *)
(***************************************************************************)
NextRemove ==
    \/ LookupShared
    \/ ValidateShared
    \/ \E how \in {"ok", "no_handshake", "refused"} : Connect(how)
    \/ DequeueShared
    \/ RemoveClose
    \/ DebitShared
    \/ DebitClose
    \/ Finally
    \/ \E t \in NewTrades : ToolAdd(t)
    \/ \E req \in ToolRequests : ToolRemove(req)
    \/ ToolClear
    \/ ToolClose

SpecRemove == InitShared /\ [][NextRemove]_vars

(***************************************************************************)
(* Executor processes started one after the other, up to the placing of    *)
(* the buy order, next to a session of the manual tools; trades.json may   *)
(* hold a hand-edited entry and risk_amount.json may be missing            *)
(***************************************************************************)
\* trades given to trades_modifier.py add
MixedTrades == {TradeAMD, TradePPIH}

\* command lines of stock_buyer.py
MixedRequests ==
    { Request("AMD", 1000000, 1050000),
      Request("PPIH", 1450000, 1550000) }

InitMixed ==
    /\ queue \in {<<>>, <<TradePPIH>>}
    /\ risk_exists \in BOOLEAN
    /\ ledger = (IF risk_exists THEN 400 ELSE 0)
    /\ pc = "idle"
    /\ args = NoRequest
    /\ trade_index = 0
    /\ trade_data = NoTrade
    /\ connected = FALSE
    /\ order_id_event = FALSE
    /\ next_order_id = 0
    /\ order_id = 0
    /\ order_fills = NoFills
    /\ order_event = "none"
    /\ elapsed = 0
    /\ last_filled = 0
    /\ no_progress_time = 0
    /\ fill_result = NoFillResult
    /\ buy_result = NoBuyResult
    /\ stop_i = 0
    /\ orders = <<>>
    /\ cancels = 0
    /\ log = <<>>
    /\ retval = FALSE
    /\ result = "none"
    /\ steps = <<>>
    /\ cbCount = 0
    /\ maxFilled = 0
    /\ silence = 0
    /\ filledInTime = FALSE
    /\ terminal = Untracked
    /\ consumed = {}
    /\ buys = <<>>
    /\ ledger0 = ledger
    /\ queue0 = queue
    /\ lock_holder = "none"
    /\ other = "off"
    /\ other_waited = 0
    /\ other_touched = FALSE
    /\ trades_buffer = NoBuffer
    /\ risk_buffer = NoRiskBuffer
    /\ tool_pc = "idle"
    /\ tool_cmd = NoCommand
    /\ tool_out = <<>>
    /\ issued = <<>>
    /\ exit_status = NoExit

NextMixed ==
    \/ \E req \in MixedRequests : Call(req)
    \/ LookupShared
    \/ ValidateShared
    \/ \E how \in {"ok", "no_handshake", "refused"} : Connect(how)
    \/ DequeueShared
    \/ RemoveClose
    \/ DebitShared
    \/ DebitClose
    \/ PlaceBuy
    \/ Finally
    \/ ToolGet
    \/ \E t \in MixedTrades : ToolAdd(t)
    \/ ToolClose

SpecMixed == InitMixed /\ [][NextMixed]_vars

(***************************************************************************)
(* One queued trade of 10 shares whose buy order is filled in part          *)
(***************************************************************************)
\* command line "stock_buyer.py AAPL 145.0 155.0"
RequestAAPL == Request("AAPL", 1450000, 1550000)

\* what the gateway reports for a 10-share order of which 6 shares are bought
PartialReports ==
    {<<"Submitted", 0>>, <<"PartiallyFilled", 6>>, <<"Cancelled", 6>>}

InitPartial ==
    /\ queue = <<TradeAAPL>>
    /\ ledger = 1000
    /\ pc = "idle"
    /\ args = NoRequest
    /\ trade_index = 0
    /\ trade_data = NoTrade
    /\ connected = FALSE
    /\ order_id_event = FALSE
    /\ next_order_id = 0
    /\ order_id = 0
    /\ order_fills = NoFills
    /\ order_event = "none"
    /\ elapsed = 0
    /\ last_filled = 0
    /\ no_progress_time = 0
    /\ fill_result = NoFillResult
    /\ buy_result = NoBuyResult
    /\ stop_i = 0
    /\ orders = <<>>
    /\ cancels = 0
    /\ log = <<>>
    /\ retval = FALSE
    /\ result = "none"
    /\ steps = <<>>
    /\ cbCount = 0
    /\ maxFilled = 0
    /\ silence = 0
    /\ filledInTime = FALSE
    /\ terminal = Untracked
    /\ consumed = {}
    /\ buys = <<>>
    /\ ledger0 = ledger
    /\ queue0 = queue
    /\ lock_holder = "none"
    /\ other = "off"
    /\ other_waited = 0
    /\ other_touched = FALSE
    /\ NoSharing

NextPartial ==
    \/ Call(RequestAAPL)
    \/ Lookup
    \/ Validate
    \/ \E how \in {"ok", "no_handshake", "refused"} : Connect(how)
    \/ Dequeue
    \/ DebitLedger
    \/ PlaceBuy
    \/ FillRegister
    \/ FillWait
    \/ FillRead
    \/ FillClear
    \/ FillCancel
    \/ FillCancelWait
    \/ BuyDone
    \/ ScaleStops
    \/ PlaceStop
    \/ Finally
    \/ \E r \in PartialReports \cap StatusReports(trade_data.shares) :
           OrderStatus(r[1], r[2])
    \/ OrderError

SpecPartial == InitPartial /\ [][NextPartial]_vars

(***************************************************************************)
(* Properties                                                              *)
(***************************************************************************)
StepOrder ==
    <<"Lookup", "Validate", "Connect", "Dequeue", "DebitLedger", "PlaceBuy",
      "AwaitFill", "ScaleStops", "PlaceStops">>

InSteps(step) == \E i \in 1..Len(steps) : steps[i] = step

InLog(kind) == \E i \in 1..Len(log) : log[i] = kind

Returned == pc = "idle" /\ result \in {"true", "false"}

IsBuy(o) == o.action = "BUY"
IsSell(o) == o.action = "SELL"

BuyPlaced == \E i \in 1..Len(orders) : IsBuy(orders[i])
SellPlaced == \E i \in 1..Len(orders) : IsSell(orders[i])

RECURSIVE SumQty(_)
SumQty(os) ==
    IF os = <<>> THEN 0
    ELSE (IF IsSell(Head(os)) THEN Head(os).totalQuantity ELSE 0) + SumQty(Tail(os))

\* the steps of the call so far, the closing Disconnect left off
StepsBeforeDisconnect ==
    IF steps # <<>> /\ steps[Len(steps)] = "Disconnect"
    THEN SubSeq(steps, 1, Len(steps) - 1) ELSE steps

\* C1: the steps of a call run in the order Lookup, Validate, Connect, Dequeue,
\* DebitLedger, PlaceBuy, AwaitFill, ScaleStops, PlaceStops, each after all its
\* predecessors, with Disconnect last; a buy order is at the gateway only when
\* the trade is out of the queue and the ledger is debited, a stop order only
\* when _wait_for_order_fill has returned.
C1_StepsInOrder ==
    /\ Len(StepsBeforeDisconnect) <= Len(StepOrder)
    /\ StepsBeforeDisconnect = SubSeq(StepOrder, 1, Len(StepsBeforeDisconnect))
    /\ BuyPlaced =>
          /\ trade_data.id \notin Ids(queue)
          /\ ledger = ledger0 - trade_data.risk_amount
    /\ SellPlaced =>
          /\ BuyPlaced
          /\ fill_result.status # "None"
          /\ InSteps("AwaitFill")

C1_Witness ==
    /\ Returned
    /\ result = "true"
    /\ SellPlaced
    /\ steps = Append(StepOrder, "Disconnect")

\* C2: whenever a call has returned - with success, with a failure, or through
\* the exception handler - the gateway session is not connected.
C2_DisconnectedOnReturn == Returned => ~connected

C2_Witness ==
    /\ Returned
    /\ InSteps("Connect")
    /\ order_id_event
    /\ log = <<"TRADE_PROCESSING_ERROR">>
    /\ ~connected

\* C3: an entry the executor has removed from the queue is never in the queue
\* again, whatever the later steps and calls do, and no entry gets a second buy
\* order.
C3_ConsumedAtMostOnce ==
    /\ \A id \in consumed : id \notin Ids(queue)
    /\ \A i, j \in 1..Len(buys) : i # j => buys[i] # buys[j]

\* a later call for a trade that was bought, and then for the same trade again
C3_Witness ==
    /\ Returned
    /\ log = <<"TRADE_NOT_FOUND">>
    /\ buys # <<>>
    /\ \E t \in {TradeGOOG, TradeMSFT} :
          /\ Matches(t, args)
          /\ t.id \in consumed
          /\ \E i \in 1..Len(buys) : buys[i] = t.id

\* the two reasons of the claim for a trade to fail validation
FailsValidation(t, available_risk) ==
    \/ Abs(SumShares(t.sell_stops) - t.shares) * 10000 > Eps
    \/ t.risk_amount > available_risk

ConnectFailed == InSteps("Connect") /\ ~order_id_event

\* C5: when the connect fails, CONNECTION_FAILED is logged and the call returns
\* failure with the queue and the ledger as they were and no order placed.
C5_ConnectFailureLeavesTrade ==
    ConnectFailed =>
        /\ InLog("CONNECTION_FAILED")
        /\ queue = queue0
        /\ trade_data.id \in Ids(queue)
        /\ ledger = ledger0
        /\ orders = <<>>
        /\ pc \in {"finally", "idle"}
        /\ pc = "idle" => result = "false"

C5_Witness ==
    /\ Returned
    /\ ConnectFailed
    /\ result = "false"
    /\ trade_data = TradeGOOG
    /\ queue = <<TradeGOOG, TradeMSFT>>

\* the match of the claim: ticker case-insensitively, both prices within 0.001
ClaimMatch(t, req) ==
    /\ Upper(t.ticker) = Upper(req.ticker)
    /\ Abs(t.lower_price_range - req.lower) < Eps
    /\ Abs(t.higher_price_range - req.higher) < Eps

\* C6: when no entry of the queue matches the request, the lookup logs
\* TRADE_NOT_FOUND and the call returns failure with nothing else done: queue
\* and ledger unchanged, no connection, no order.
C6_LookupMissStops ==
    (InSteps("Lookup") /\ \A i \in 1..Len(queue0) : ~ClaimMatch(queue0[i], args)) =>
        /\ log = <<"TRADE_NOT_FOUND">>
        /\ trade_data = NoTrade
        /\ queue = queue0
        /\ ledger = ledger0
        /\ ~connected
        /\ orders = <<>>
        /\ \A i \in 1..Len(steps) : steps[i] \in {"Lookup", "Disconnect"}
        /\ pc \in {"finally", "idle"}
        /\ pc = "idle" => result = "false"

\* a request whose lower price is exactly 0.001 away from the entry's
C6_Witness ==
    /\ Returned
    /\ result = "false"
    /\ log = <<"TRADE_NOT_FOUND">>
    /\ args = Request("GOOG", 1700010, 1800000)
    /\ queue = <<TradeGOOG, TradeMSFT>>

\* C7: a call that connected, dequeued and debited, and whose buy order filled
\* no share, returns failure with no stop order placed, the trade out of the
\* queue and the ledger still debited by risk_amount.
C7_NoFillKeepsDebit ==
    (Returned /\ InSteps("DebitLedger") /\ maxFilled = 0) =>
        /\ result = "false"
        /\ ~SellPlaced
        /\ trade_data.id \notin Ids(queue)
        /\ ledger = ledger0 - trade_data.risk_amount

C7_Witness ==
    /\ Returned
    /\ InSteps("AwaitFill")
    /\ maxFilled = 0
    /\ cancels = 1
    /\ result = "false"
    /\ log = <<"BUY_ORDER_NO_FILL", "BUY_ORDER_COMPLETE_FAILURE">>
    /\ ledger = ledger0 - trade_data.risk_amount

\* _wait_for_order_fill returned a fill of some but not all planned shares
PartialFill ==
    /\ InSteps("AwaitFill")
    /\ 0 < fill_result.filled_shares
    /\ fill_result.filled_shares < trade_data.shares

\* C8: a partial fill, however the wait ended, does not fail the call: stop
\* placement runs for the filled quantity and the call returns success.
C8_PartialFillSucceeds ==
    (PartialFill /\ pc \in {"finally", "idle"}) =>
        /\ retval
        /\ pc = "idle" => result = "true"
        /\ InSteps("ScaleStops")
        /\ InSteps("PlaceStops")
        /\ buy_result.success
        /\ buy_result.filled_shares = fill_result.filled_shares
        /\ SumQty(orders) <= fill_result.filled_shares

C8_Witness ==
    /\ Returned
    /\ PartialFill
    /\ fill_result.status = "Timeout"
    /\ result = "true"
    /\ SellPlaced

\* the stop orders of the claim for the stops of a trade, f shares filled of p
RECURSIVE ExpectedStops(_, _, _)
ExpectedStops(stops, f, p) ==
    IF stops = <<>> THEN <<>>
    ELSE LET n == (Head(stops).shares * f) \div p
         IN  (IF n = 0 THEN <<>> ELSE <<[qty |-> n, price |-> Head(stops).price]>>)
                 \o ExpectedStops(Tail(stops), f, p)

RECURSIVE PlacedStops(_)
PlacedStops(os) ==
    IF os = <<>> THEN <<>>
    ELSE (IF IsSell(Head(os)) /\ Head(os).orderType = "STP"
          THEN <<[qty |-> Head(os).totalQuantity, price |-> Head(os).auxPrice]>>
          ELSE <<>>) \o PlacedStops(Tail(os))

\* C9: when stop placement has finished, the stop orders placed are, in the
\* order of the trade's stop list, one SELL stop per stop of
\* floor(stop.shares * filled / planned) shares at the stop's price, the stops
\* whose count is 0 left out.
C9_StopsAreExactFloor ==
    (Returned /\ InSteps("ScaleStops")) =>
        PlacedStops(orders) =
            ExpectedStops(trade_data.sell_stops, buy_result.filled_shares,
                          trade_data.shares)

\* C10: the shares of the stop orders placed never add up to more than
\* ceil(sum of the stops' shares * filled / planned), nor to more than the
\* shares bought.
C10_RoundingNeverAdds ==
    InSteps("AwaitFill") =>
        /\ SumQty(orders) <=
              (SumShares(trade_data.sell_stops) * buy_result.filled_shares
                  + trade_data.shares - 1) \div trade_data.shares
        /\ SumQty(orders) <= buy_result.filled_shares

\* three stops placed, one share of the six bought left without a stop
C10_Witness ==
    /\ Returned
    /\ trade_data = TradeAAPL
    /\ buy_result.filled_shares = 6
    /\ Len(PlacedStops(orders)) = 3
    /\ SumQty(orders) = 5

\* the stops the loop attempts: those whose scaled count is not 0, in list order
RECURSIVE AttemptedStops(_, _, _)
AttemptedStops(stops, f, p) ==
    IF stops = <<>> THEN <<>>
    ELSE LET n == ScaledShares(Head(stops).shares, f, p)
         IN  (IF n = 0 THEN <<>> ELSE <<[qty |-> n, price |-> Head(stops).price]>>)
                 \o AttemptedStops(Tail(stops), f, p)

RECURSIVE CountLog(_, _)
CountLog(l, kind) ==
    IF l = <<>> THEN 0
    ELSE (IF Head(l) = kind THEN 1 ELSE 0) + CountLog(Tail(l), kind)

\* the k-th attempted stop takes the k-th order id after the buy order's
StopPlaced(k, e) ==
    \E i \in 1..Len(orders) :
        /\ IsSell(orders[i])
        /\ orders[i].id = order_id + k
        /\ orders[i].totalQuantity = e.qty
        /\ orders[i].auxPrice = e.price

\* C11: when the stop loop has finished, every attempted stop either has its
\* SELL order at the gateway or failed with one SELL_STOP_ORDER_FAILED entry;
\* a failure does not keep any later stop from being attempted, and the
\* orders placed are in list order.
C11_StopsIndependent ==
    (pc \in {"finally", "idle"} /\ InSteps("PlaceStops")) =>
        LET E == AttemptedStops(trade_data.sell_stops, buy_result.filled_shares,
                                trade_data.shares)
            placed == {k \in 1..Len(E) : StopPlaced(k, E[k])}
        IN  /\ next_order_id = order_id + Len(E) + 1
            /\ Cardinality(placed) = Len(PlacedStops(orders))
            /\ CountLog(log, "SELL_STOP_ORDER_FAILED") = Len(E) - Cardinality(placed)
            /\ \A i, j \in 1..Len(orders) : i < j => orders[i].id < orders[j].id
            /\ retval

\* the first stop of the trade failed, the second one was placed after it
C11_Witness ==
    /\ Returned
    /\ trade_data = TradeGOOG
    /\ buy_result.filled_shares = 4
    /\ log = <<"SELL_STOP_ORDER_FAILED">>
    /\ PlacedStops(orders) = <<[qty |-> 3, price |-> 1600000]>>
    /\ \E i \in 1..Len(orders) : orders[i].id = order_id + 2

\* _wait_for_order_fill has returned
AwaitReturned == InSteps("AwaitFill")

\* C12: when the callbacks of the buy order end with a Filled status delivered
\* while the wait loop is running and before the 120 s timeout,
\* _wait_for_order_fill returns success = true, filled_shares = the filled
\* quantity of that callback and cancelled = false.
C12_FilledReturnsClean ==
    (AwaitReturned /\ filledInTime) =>
        /\ fill_result.success
        /\ fill_result.filled_shares = order_fills.filled
        /\ ~fill_result.cancelled

\* the wait loop knows of a fill of some but not all shares
PartialKnown ==
    /\ order_fills.status \in {"PartiallyFilled", "Submitted"}
    /\ 0 < order_fills.filled
    /\ order_fills.filled < trade_data.shares

\* C13: with a partial fill reported, _wait_for_order_fill does not go on
\* waiting once 30 s have passed without a further callback: the loop is left
\* for the cancel when the silence reaches 30 s.
C13_StallEndsWait ==
    (InLoop /\ PartialKnown) => silence <= StallLimit

C16_SuccessIffFilled ==
    AwaitReturned => (fill_result.success <=> fill_result.filled_shares > 0)

\* a timeout without cancel confirmation that still counts as success
C16_Witness ==
    /\ AwaitReturned
    /\ fill_result.status = "Timeout"
    /\ ~fill_result.cancelled
    /\ fill_result.success
    /\ fill_result.filled_shares > 0
    /\ fill_result.filled_shares < trade_data.shares

\* C17: the filled_shares _wait_for_order_fill returns is the largest
\* cumulative filled quantity any callback delivered before the return
\* reported; a stale or repeated callback does not lower it.
C17_StaleCallbackHarmless ==
    AwaitReturned => fill_result.filled_shares = maxFilled

\* C15: _wait_for_order_fill always returns, whatever the callbacks do - none
\* at all, callbacks without end, a cancel that is never confirmed; what it
\* returns is the fill known at the return, and unless a Filled or Cancelled
\* status ended the loop, cancelOrder was issued first.
C15_AwaitFillReturns ==
    (pc = "fill_register") ~>
        /\ pc = "buy_done"
        /\ AwaitReturned
        /\ fill_result.filled_shares = FillFilled
        /\ cancels = 1 \/ (cancels = 0 /\ fill_result.status \in {"Filled", "Cancelled"})

\* returned on the timeout after callbacks kept arriving and no cancel confirmation
C15_Witness ==
    /\ pc = "buy_done"
    /\ cbCount = MaxCallbacks
    /\ elapsed = BuyTimeout
    /\ cancels = 1
    /\ order_event = "clear"
    /\ fill_result.status = "Timeout"

\* the first process is between taking and releasing the global lock
RunnerActive == pc # "idle"

\* the second process is between taking and releasing the global lock
OtherActive == other \in {"run", "processed"}

\* C18: the two executor processes never process at the same time; whoever
\* processes holds the global lock; a process that could not take the lock
\* exits having read nothing of the queue, and changes nothing; a process that
\* has left main() no longer holds the lock.
C18_SingleInstance ==
    /\ ~(RunnerActive /\ OtherActive)
    /\ RunnerActive <=> lock_holder = "runner"
    /\ OtherActive <=> lock_holder = "other"
    /\ other = "gave_up" => ~other_touched
    /\ other \in {"acquire", "gave_up"} /\ other_waited > 0 => ~other_touched

\* the second process gave up while the first was still waiting for its fill
C18_Witness ==
    /\ other = "gave_up"
    /\ other_waited = MaxTries
    /\ pc = "fill_loop"
    /\ lock_holder = "runner"
    /\ queue = <<TradeGOOG>>

\* a mutation applied to the ledger; a refused subtract leaves it as it was
Apply(c, old_amount) ==
    IF Refused(c, old_amount) THEN old_amount ELSE NewAmount(c, old_amount)

\* the ledgers that the mutations issued[i], i in todo, applied one after
\* the other in some order, make of old_amount
RECURSIVE Outcomes(_, _)
Outcomes(old_amount, todo) ==
    IF todo = {}
    THEN {old_amount}
    ELSE UNION { Outcomes(Apply(issued[i], old_amount), todo \ {i}) : i \in todo }

\* every rewrite of the ledger file that was started is on disk
LedgerSettled == ~Truncated(risk_buffer)

\* C19: whenever no ledger rewrite is under way, available_risk is what the
\* mutations called so far (the debit of the executor and the set, add and
\* subtract commands of the tool) give when applied in some serial order to
\* the ledger the call started with
C19_LedgerSerializable ==
    LedgerSettled => ledger \in Outcomes(ledger0, 1..Len(issued))

\* every rewrite of the queue file that was started is on disk
QueueSettled == ~Truncated(trades_buffer)

\* the tool has run "add" for the trade t
AddCalled(t) ==
    \E i \in 1..Len(tool_out) :
        /\ tool_out[i].command.cmd = "add_trade"
        /\ tool_out[i].command.trade.id = t.id

\* C20: whenever no queue rewrite is under way, the executor has removed
\* nothing but the entry find returned, every other entry the queue started
\* with is still there, and the trade a concurrent add was called for is in
\* the queue unless the executor removed it
C20_NoLostQueueUpdate ==
    QueueSettled =>
        /\ consumed \subseteq {trade_data.id}
        /\ Ids(queue0) \ consumed \subseteq Ids(queue)
        /\ AddCalled(TradeAMD) => TradeAMD.id \in Ids(queue) \cup consumed

\* the command the tool has just finished, in a step that finishes one
Finished == tool_out'[Len(tool_out')]

\* C21: a finished subtract command whose difference would be negative has
\* reported failure and left the ledger as it was; every other finished set,
\* add or subtract command has reported success and stored the amount given,
\* the sum or the difference, with no floor for set and add
C21_SubtractFailsClosed ==
    [][ (/\ Len(tool_out') = Len(tool_out) + 1
         /\ Finished.command.cmd \in {"set", "add", "subtract"})
        => LET c == Finished.command
               available_risk == InitializedLedger
           IN  IF c.cmd = "subtract" /\ available_risk - c.amount < 0
               THEN ~Finished.ok /\ ledger' = available_risk
               ELSE /\ Finished.ok
                    /\ ledger' = (CASE c.cmd = "set" -> c.amount
                                    [] c.cmd = "add" -> available_risk + c.amount
                                    [] c.cmd = "subtract" -> available_risk - c.amount)
      ]_vars

\* a subtract of 800 was stored and left exactly 0, and a second one was refused
C21_Witness ==
    /\ Len(tool_out) = 2
    /\ tool_out[1].command.cmd = "subtract" /\ tool_out[1].ok
    /\ tool_out[2].command.cmd = "subtract" /\ ~tool_out[2].ok
    /\ ledger = 0

\* C22 as claimed: available_risk is never negative
C22_LedgerNeverNegative == ledger >= 0

\* a manual set or subtract command has been stored
LoweredByHand ==
    \E i \in 1..Len(tool_out) :
        tool_out[i].command.cmd \in {"set", "subtract"} /\ tool_out[i].ok

\* C22 as amended: available_risk becomes negative only by the debit of an
\* executor run during which a manual set or subtract command was stored,
\* and then it is not below minus the risk_amount of the trade; no manual
\* command and no executor run on its own takes it below 0
C22_NegativeOnlyByRacedDebit ==
    [][ (ledger >= 0 /\ ledger' < 0)
        => /\ pc = "debit_close"
           /\ pc' = "place_buy"
           /\ LoweredByHand
           /\ ledger' >= 0 - trade_data.risk_amount ]_vars

\* the executor validated GOOG against 1000, subtract 800 was stored, and
\* the debit of 500 left -300
C22_Witness ==
    /\ pc = "place_buy"
    /\ trade_data = TradeGOOG
    /\ LoweredByHand
    /\ ledger = 0 - 300

\* the stops of t sum to its shares within 0.001
StopSumHolds(t) == Abs(SumShares(t.sell_stops) - t.shares) * 10000 <= Eps

\* C23: an add command given a trade whose stops do not sum to its shares
\* fails and leaves the queue as it was, every entry an add command appends
\* satisfies the stop sum, and whenever the executor has placed a buy order
\* the trade it is processing satisfies it; once validation has run on a
\* trade that violates it, no order is placed
C23_StopSumAtBothEnds ==
    /\ [](BuyPlaced => StopSumHolds(trade_data))
    /\ []((InSteps("Validate") /\ ~StopSumHolds(trade_data)) => orders = <<>>)
    /\ [][ (/\ Len(tool_out') = Len(tool_out) + 1
             /\ Finished.command.cmd = "add_trade")
            => IF StopSumHolds(Finished.command.trade)
               THEN Finished.ok =>
                       /\ Len(queue') = Len(queue) + 1
                       /\ StopSumHolds(queue'[Len(queue')])
               ELSE ~Finished.ok /\ queue' = queue ]_vars

\* add refused the PPIH trade, whose stops sum to 10 for 1 share, the
\* executor evicted the hand-edited PPIH entry without an order, and a later
\* run placed the buy order for the AMD trade that add admitted
C23_Witness ==
    /\ \E i \in 1..Len(tool_out) :
          /\ tool_out[i].command.cmd = "add_trade"
          /\ tool_out[i].command.trade = TradePPIH
          /\ ~tool_out[i].ok
    /\ consumed = {TradePPIH.id, TradeAMD.id}
    /\ buys = <<TradeAMD.id>>
    /\ BuyPlaced
    /\ queue = <<>>

\* two entries for the same ticker and the same price range
SameTriple(a, b) ==
    /\ a.ticker = b.ticker
    /\ a.lower_price_range = b.lower_price_range
    /\ a.higher_price_range = b.higher_price_range

\* C24: in a tool session that starts from an empty queue no two entries of
\* the queue have the same (ticker, lower price, higher price), and an add
\* command for a triple that is in the queue fails and leaves the queue as it
\* was
C24_NoDuplicateTriples ==
    /\ [](\A i, j \in 1..Len(queue) : i # j => ~SameTriple(queue[i], queue[j]))
    /\ [][ (/\ Len(tool_out') = Len(tool_out) + 1
             /\ Finished.command.cmd = "add_trade"
             /\ \E i \in 1..Len(queue) :
                    SameTriple(queue[i], NormalizeTrade(Finished.command.trade)))
            => ~Finished.ok /\ queue' = queue ]_vars

\* AMD was added, "amd" for the same range was refused, and after a remove
\* of AMD the range was added again: the queue holds one entry
C24_Witness ==
    /\ Len(tool_out) = 3
    /\ tool_out[1].command.trade = TradeAMD /\ tool_out[1].ok
    /\ tool_out[2].command.trade = TradeAMDLower /\ ~tool_out[2].ok
    /\ tool_out[3].command.cmd = "remove_trade" /\ tool_out[3].ok
    /\ queue = <<>>

\* C25: with the queue holding only the AAPL trade (10 shares, risk 500,
\* range 145-155, stops 5 at 150, 3 at 145, 2 at 140) and a ledger of 1000, a
\* call whose buy order ends with 6 shares bought places stop orders of 3, 1
\* and 1 shares at 150, 145 and 140, leaves the ledger at 500 and the queue
\* empty, and returns success.
C25_PartialFillScenario ==
    (Returned /\ buy_result.made /\ buy_result.filled_shares = 6) =>
        /\ trade_data = TradeAAPL
        /\ PlacedStops(orders) = << [qty |-> 3, price |-> 1500000],
                                    [qty |-> 1, price |-> 1450000],
                                    [qty |-> 1, price |-> 1400000] >>
        /\ Len(orders) = 4
        /\ ledger = 500
        /\ queue = <<>>
        /\ result = "true"

\* the call has returned after a cancelled order of which 6 shares were bought
C25_Witness ==
    /\ Returned
    /\ buy_result.made
    /\ buy_result.filled_shares = 6
    /\ ~buy_result.full_fill
    /\ maxFilled = 6
    /\ SumQty(orders) = 5
    /\ exit_status.runner = "0"

\* C26: an executor process ends with status 0 only when its call of
\* process_specific_trade returned True; it ends with status 1 when the call
\* returned False, and when the process could not take the global lock.
C26_ExitStatusTellsSuccess ==
    /\ exit_status.runner = "0" => result = "true"
    /\ (Returned /\ result = "false") => exit_status.runner = "1"
    /\ other = "gave_up" => exit_status.other = "1"

\* C27 as claimed: a call in which SELL_STOP_ORDERS_FAILED was logged does not
\* end with a boolean result, and the failure is not logged as a processing
\* error.
C27_StopsFailurePropagates ==
    InLog("SELL_STOP_ORDERS_FAILED") =>
        /\ ~InLog("TRADE_PROCESSING_ERROR")
        /\ pc = "idle" => result \notin {"true", "false"}

\* C27 (amended): a failure of the stop placement as a whole is logged as
\* SELL_STOP_ORDERS_FAILED and re-raised out of the stop placement; the
\* top-level handler of the call catches it, logs TRADE_PROCESSING_ERROR and
\* the call returns False, with no stop order placed. Every call that ends,
\* ends with a boolean result.
C27_StopsFailureIsConverted ==
    /\ InLog("SELL_STOP_ORDERS_FAILED") =>
           /\ Len(log) >= 2
           /\ log[Len(log) - 1] = "SELL_STOP_ORDERS_FAILED"
           /\ log[Len(log)] = "TRADE_PROCESSING_ERROR"
           /\ BuyPlaced /\ ~SellPlaced
           /\ pc \in {"finally", "idle"}
           /\ ~retval
           /\ pc = "idle" => result = "false" /\ exit_status.runner = "1"
    /\ (pc = "idle" /\ result # "none") => result \in {"true", "false"}

C27_Witness ==
    /\ Returned
    /\ result = "false"
    /\ buy_result.filled_shares > 0
    /\ log = <<"SELL_STOP_ORDERS_FAILED", "TRADE_PROCESSING_ERROR">>

\* a log entry an exception handler wrote
ExceptionLogged ==
    \/ InLog("TRADE_PROCESSING_ERROR")
    \/ InLog("BUY_ORDER_FAILED")
    \/ InLog("SELL_STOP_ORDER_FAILED")
    \/ InLog("SELL_STOP_ORDERS_FAILED")

\* C28 as claimed: whenever an exception was raised in a step of the call,
\* order placement included, TRADE_PROCESSING_ERROR is logged and the call
\* returns False.
C28_EveryExceptionIsProcessingError ==
    ExceptionLogged =>
        /\ pc \in {"finally", "idle"} => InLog("TRADE_PROCESSING_ERROR") /\ ~retval
        /\ pc = "idle" => result = "false"

\* the step the call is at uses the queue file or the ledger file
AtFileStep == pc \in {"lookup", "validate", "dequeue", "debit"}

\* C28 (amended): an exception in a step that has no handler of its own (a
\* file step left for the finally clause without being completed: lock
\* failure, unreadable file, stale index) is logged as TRADE_PROCESSING_ERROR
\* and the call returns False, as does every call with such a log entry. An
\* error of the buy placement is logged as BUY_ORDER_FAILED and
\* BUY_ORDER_COMPLETE_FAILURE and the call returns False; an error of one
\* stop placement is logged as SELL_STOP_ORDER_FAILED and the call returns
\* True.
C28_UnhandledExceptionIsProcessingError ==
    /\ [][ (AtFileStep /\ pc' = "finally" /\ steps' = steps)
               => /\ log' = Append(log, "TRADE_PROCESSING_ERROR")
                  /\ ~retval'
                  /\ files' = files /\ gate' = gate ]_vars
    /\ [](InLog("TRADE_PROCESSING_ERROR") =>
             /\ pc \in {"finally", "idle"}
             /\ ~retval
             /\ pc = "idle" => result = "false")
    /\ [](InLog("BUY_ORDER_FAILED") =>
             /\ log = <<"BUY_ORDER_FAILED", "BUY_ORDER_COMPLETE_FAILURE">>
             /\ ~retval
             /\ pc = "idle" => result = "false")
    /\ []((Returned /\ InLog("SELL_STOP_ORDER_FAILED")) =>
             ~InLog("TRADE_PROCESSING_ERROR") /\ result = "true")

\* the ledger could not be read for the debit: the entry is gone, the ledger
\* is as it was and the call has returned False
C28_Witness ==
    /\ Returned
    /\ result = "false"
    /\ log = <<"TRADE_PROCESSING_ERROR">>
    /\ steps = <<"Lookup", "Validate", "Connect", "Dequeue", "Disconnect">>
    /\ ledger = ledger0
    /\ orders = <<>>

\* C29: the step that creates a missing ledger file, by whichever process,
\* leaves it at 0, so that every queued trade with a positive risk_amount
\* fails validation against it.
C29_AbsentLedgerStartsAtZero ==
    [][ (~risk_exists /\ risk_exists') =>
            /\ ledger' = 0
            /\ \A i \in 1..Len(queue') :
                   queue'[i].risk_amount > 0 => ~ValidateTrade(queue'[i], ledger') ]_vars

\* C30: every connection attempt during which the nextValidId handshake does
\* not arrive within 10 s, a later attempt of the same object included, fails:
\* CONNECTION_FAILED is logged, the call is on its way to return False, and
\* no order has been placed.
C30_ConnectNeedsHandshake ==
    [][ Connect("no_handshake") =>
            /\ pc' = "finally"
            /\ ~retval'
            /\ Len(log') > Len(log)
            /\ log'[Len(log')] = "CONNECTION_FAILED"
            /\ orders' = <<>> ]_vars

\* C31 as claimed: when a call has returned False for a trade its lookup
\* found and that trade is still in the queue, the failure was a connection
\* failure.
C31_OnlyConnectFailureKeepsTrade ==
    (Returned /\ result = "false" /\ trade_data # NoTrade
        /\ trade_data.id \in Ids(queue))
      => InLog("CONNECTION_FAILED")

\* C31 (amended): when a call has returned False for a trade its lookup found
\* and that trade is still in the queue, the failure was a connection failure
\* or an exception raised before the removal of the trade (the ledger or the
\* queue file could not be locked or read in the validation or in the
\* removal).
C31_ConnectFailureOrEarlyException ==
    (Returned /\ result = "false" /\ trade_data # NoTrade
        /\ trade_data.id \in Ids(queue))
      => \/ InLog("CONNECTION_FAILED")
         \/ /\ InLog("TRADE_PROCESSING_ERROR")
            /\ ~InSteps("Dequeue")
            /\ orders = <<>>
            /\ ledger = ledger0

\* the ledger could not be read in the validation: the trade is still queued
C31_Witness ==
    /\ Returned
    /\ result = "false"
    /\ trade_data = TradeGOOG
    /\ trade_data.id \in Ids(queue)
    /\ log = <<"TRADE_PROCESSING_ERROR">>
    /\ steps = <<"Lookup", "Disconnect">>

\* the record of the order is the one its first terminal callback stored: no
\* later callback has replaced it
TerminalStands ==
    /\ order_fills.status = terminal.status
    /\ order_fills.filled = terminal.filled

\* C32: when a Cancelled status arrived for the buy order while the wait loop
\* was running (and no later callback replaced its record),
\* _wait_for_order_fill returns success = (filled > 0), cancelled = true,
\* status Cancelled and the filled and remaining quantities of that callback,
\* and has not called cancelOrder.
C32_CancelledEndsWait ==
    (AwaitReturned /\ terminal.status = "Cancelled" /\ terminal.at = "loop"
        /\ TerminalStands) =>
        /\ fill_result = FillOutcome(terminal.filled > 0, terminal.filled,
                                     terminal.remaining, "Cancelled", TRUE)
        /\ cancels = 0

\* C33: cancelOrder is never issued before the time it takes the no-progress
\* counter, counting real 5 s slices since the last increase of the filled
\* quantity, to reach 30 s: when cancelOrder has been called, either the
\* 120 s of the timeout have passed in the wait, or at least 30 s have passed
\* in it and the order is known to be partially filled.
C33_NoCancelBeforeStall ==
    cancels > 0 =>
        \/ elapsed >= BuyTimeout
        \/ /\ elapsed >= StallLimit
           /\ 0 < last_filled /\ last_filled < trade_data.shares

\* C34: when a Filled or Cancelled callback was delivered for the buy order
\* after placeOrder and before the end of the wait loop - the time before
\* the order's event is registered and the time between the read of the
\* record and the clearing of the event included - and its record stands,
\* _wait_for_order_fill returns that status and that filled quantity, before
\* the 120 s are over and without a cancelOrder.
C34_NoTerminalLost ==
    (AwaitReturned /\ terminal.at \in {"register", "loop"} /\ TerminalStands) =>
        /\ fill_result.status = terminal.status
        /\ fill_result.filled_shares = terminal.filled
        /\ fill_result.cancelled = (terminal.status = "Cancelled")
        /\ cancels = 0
        /\ elapsed < BuyTimeout

\* C35: _wait_for_order_fill returns status Cancelled or cancelled = true
\* only when a callback with status Cancelled has been delivered for the
\* order.
C35_CancelledOnlyIfConfirmed ==
    (AwaitReturned /\ (fill_result.cancelled \/ fill_result.status = "Cancelled"))
        => terminal.cancelled

\* C36: whatever the trade-queue tool does between the lookup and the
\* removal, the entry a removal of the executor takes out of the queue file
\* has the ticker and the price range of the entry its lookup returned.
C36_RemovesWhatLookupFound ==
    [][ (trades_buffer.owner = "none" /\ trades_buffer'.owner = "runner") =>
            /\ SameTriple(queue[trade_index], trade_data)
            /\ trades_buffer'.data = RemoveAt(queue, trade_index) ]_vars

\* C37: one processTrade call changes the ledger by exactly -risk_amount of
\* the processed trade if and only if it dequeued that trade after a
\* successful connect, and leaves the ledger unchanged on every other path;
\* it never debits twice and never credits.
C37_DebitIffDequeued ==
    (pc \in {"finally", "idle"} /\ result # "none") =>
        ledger = IF InSteps("Connect") /\ InSteps("Dequeue")
                 THEN ledger0 - trade_data.risk_amount
                 ELSE ledger0

\* C37 as the code has it: the ledger changes by exactly -risk_amount if and
\* only if the ledger update that follows the dequeue completed; a call whose
\* ledger update raised has dequeued the trade, reports
\* TRADE_PROCESSING_ERROR and leaves the ledger unchanged.  On every other
\* path the ledger is unchanged; no call debits twice or credits.
C37_DebitIffLedgerUpdated ==
    /\ ledger = IF InSteps("DebitLedger")
                THEN ledger0 - trade_data.risk_amount
                ELSE ledger0
    /\ InSteps("DebitLedger") => InSteps("Connect") /\ InSteps("Dequeue")
    /\ (pc \in {"finally", "idle"} /\ result # "none"
          /\ InSteps("Dequeue") /\ ~InSteps("DebitLedger"))
         => InLog("TRADE_PROCESSING_ERROR") /\ orders = <<>>

C37_Witness ==
    /\ Returned
    /\ trade_data = TradeMSFT
    /\ steps = <<"Lookup", "Validate", "Connect", "Dequeue", "DebitLedger",
                 "PlaceBuy", "AwaitFill", "Disconnect">>
    /\ ledger = ledger0 - TradeMSFT.risk_amount
    /\ ~(TradeMSFT.id \in Ids(queue))

\* C38: executor runs on their own never drive available_risk below zero:
\* from available_risk >= 0 every run starts and ends with
\* available_risk >= 0, and a run that debits does so for a trade whose
\* risk_amount was not above the available_risk the run started with
C38_RunsAloneKeepLedgerNonNegative ==
    /\ ledger0 >= 0
    /\ ledger >= 0
    /\ InSteps("DebitLedger") => trade_data.risk_amount <= ledger0

\* the second of two runs: GOOG took 500 of 1000, msft 300 of the 500 left
C38_Witness ==
    /\ Returned
    /\ trade_data = TradeMSFT
    /\ InSteps("DebitLedger")
    /\ ledger0 = 1000 - TradeGOOG.risk_amount
    /\ ledger = ledger0 - TradeMSFT.risk_amount
    /\ queue = <<>>

\* C39: whenever processTrade has placed a stop order, the buy order is in
\* a terminal state: a Filled or a Cancelled status callback has been
\* received for it, so that it cannot fill further shares after the stops
\* have been sized
C39_StopsSizedFromFinalFill ==
    SellPlaced => terminal.status \in {"Filled", "Cancelled"}

====
